---- MODULE Spec2Model ----
(***************************************************************************)
(* Warp Messenger stateful precompile of subnet-evm:                       *)
(*   - the three handlers getBlockchainId, getVerifiedWarpMessage and      *)
(*     sendWarpMessage (precompile/warp_messenger.go), run one call at a   *)
(*     time against a state made of the local chain id and the log list;   *)
(*   - the predicate WarpMessengerConfig.verifyPredicate, run step by step *)
(*     over the access-list payload of one transaction;                    *)
(*   - the configs of the precompile, their constructors and Equal;        *)
(*   - the load simulator's issueNAgent.Execute (cmd/simulator/txs/agent.go)*)
(*     run step by step against a transaction sequence, a worker and a     *)
(*     context;                                                            *)
(*   - the load simulator's Loader.ConfirmReachedTip                       *)
(*     (cmd/simulator/load/loader.go), its initial pass and its pollers;   *)
(*   - Loader.Execute, which builds the agents and runs them in a group.   *)
(***************************************************************************)
EXTENDS Integers, Sequences, FiniteSets, TLC

VARIABLES
    chainID,    \* accessibleState.GetSnowContext().ChainID / predicateContext.SnowCtx.ChainID
    logs,       \* the StateDB's log list (AddLog appends)
    call,       \* the last handler call: its arguments and what it returned
    weights,    \* the validator set snapshot at the pinned P-Chain height
    pctx,       \* verifyPredicate: the predicateContext argument
    pslots,     \* verifyPredicate: the storageSlots argument
    ppc,        \* verifyPredicate: position in the function
    pmsgs,      \* verifyPredicate: messagesBytes, the decoded list
    pidx,       \* verifyPredicate: position of the range loop (1-based)
    pmsg,       \* verifyPredicate: message, the parsed message of this iteration
    presult,    \* verifyPredicate: the returned error ("" is nil)
    ptrace,     \* verifyPredicate: the library calls made so far, in order
    configs,    \* the precompile configs built so far, in allocation order
    equalCall,  \* the last call of Equal: receiver, argument and result
    an,         \* issueNAgent: a.n, the batch size
    asrc,       \* the sequence: transactions it has still to send
    abuf,       \* the sequence channel: transactions ready to be received
    aclosed,    \* the sequence channel is closed
    actx,       \* the context of Execute is cancelled
    apc,        \* Execute: position in the function
    ai,         \* Execute: i of the issuance loop
    atxs,       \* Execute: txs, the transactions of the batch
    amore,      \* Execute: moreTxs
    aci,        \* Execute: position of the confirmation loop (1-based)
    aret,       \* Execute: the returned error
    arecv,      \* the transactions Execute received, in order
    atrace,     \* the worker calls made, in order, with what they returned
    theight,    \* the height of every client's chain
    tctx,       \* the context of ConfirmReachedTip is cancelled
    tpc,        \* ConfirmReachedTip: position in the function
    ti,         \* ConfirmReachedTip: the client of the initial pass (1-based)
    tmax,       \* ConfirmReachedTip: maxHeight
    tppc,       \* position of every client's polling goroutine
    tegerr,     \* the errgroup's error: the first one a goroutine returned
    tret,       \* ConfirmReachedTip: the returned error
    tinit,      \* the heights reported in the initial pass (-1: none)
    treported,  \* the last height each client reported to its poller (-1: none)
    tfailed,    \* some LatestHeight call returned an error
    tdone,      \* some poller took the case of the cancelled context
    tcancelBelow, \* the context was cancelled with a polled client below maxHeight
    lseqs,      \* Loader: len(l.txSequences)
    lclients,   \* Loader: len(l.clients)
    lbatch,     \* Loader: l.batchSize
    lctx,       \* the context of Loader.Execute is cancelled
    lpc,        \* Loader.Execute: position in the function
    lagents,    \* Loader.Execute: agents
    lapc,       \* position of every agent's goroutine
    lares,      \* what every agent's Execute returned
    lissued,    \* for every client, the sequences whose transactions it was given
    legerr,     \* the errgroup's error: the first one a goroutine returned
    lret        \* Loader.Execute: the returned error

vars == <<chainID, logs, call, weights, pctx, pslots, ppc, pmsgs, pidx, pmsg, presult, ptrace,
          configs, equalCall,
          an, asrc, abuf, aclosed, actx, apc, ai, atxs, amore, aci, aret, arecv, atrace,
          theight, tctx, tpc, ti, tmax, tppc, tegerr, tret, tinit, treported,
          tfailed, tdone, tcancelBelow,
          lseqs, lclients, lbatch, lctx, lpc, lagents, lapc, lares, lissued, legerr, lret>>

execVars == <<logs, call>>
predVars == <<weights, pctx, pslots, ppc, pmsgs, pidx, pmsg, presult, ptrace>>
cfgVars == <<configs, equalCall>>
agentVars == <<an, asrc, abuf, aclosed, actx, apc, ai, atxs, amore, aci, aret, arecv, atrace>>
tipVars == <<theight, tctx, tpc, ti, tmax, tppc, tegerr, tret, tinit, treported,
             tfailed, tdone, tcancelBelow>>
loaderVars == <<lseqs, lclients, lbatch, lctx, lpc, lagents, lapc, lares, lissued, legerr, lret>>

(***************************************************************************)
(* Bounds of the model.                                                    *)
(***************************************************************************)
MaxMsgs == 2          \* signed messages in one access-list payload
MaxLogs == 1          \* log records kept in the log list
MaxConfigs == 2       \* precompile configs built
MaxBatch == 2         \* the batch size n of an agent
MaxTxs == 4           \* transactions of one sequence
NumClients == 2       \* clients of a loader
MaxHeight == 2        \* the height a client's chain can reach
MaxSequences == 2     \* transaction sequences of a loader
NumValidators == 3    \* validators in the snapshot

(***************************************************************************)
(* Program constants.                                                      *)
(***************************************************************************)
GetBlockchainIdGasCost == 5000
GetVerifiedWarpMessageGasCost == 100000
GetVerifiedWarpMessageGasCostPerAggregatedKey == 1000
SendWarpMessageGasCost == 100000
WarpQuorumNumerator == 67
WarpQuorumDenominator == 100

SubmitMessageEventID == "da2b1cd3e6664863b4ad90f53a4e14fca9fc00f3f0e01e5c7b236a4355b6591a"
\* The id of the one event of WarpMessengerRawABI: the Keccak-256 hash of
\* its signature, SendWarpMessage(bytes32,bytes32,bytes32,bytes).
SendWarpMessageEventID == "3fbe72e4ebb97828161c60c9f46739afd78d4d819aa53b9bf6790d96c3060773"
WarpMessengerAddress == "WarpMessengerAddress"
Version == 0

ErrOutOfGas == "out of gas"
ErrWriteProtection == "write protection"
ErrMissingSlots == "missing access list storage slots from precompile during execution"
ErrInvalidIndex == "invalid message index"
ErrInvalidSignature == "invalid aggregate signature"
ErrAbiUnpack == "abi: cannot unpack input"
ErrRlpDecode == "rlp: cannot decode a list of byte strings"
ErrParseMessage == "teleporter: cannot parse message"
ErrCodecUnmarshal == "codec: cannot unmarshal"
ErrMissingProposerCtx == "missing proposer VM block context"
ErrWrongChainID == "wrong chain id"
ErrSignatureVerify == "teleporter: signature verification failed"

(***************************************************************************)
(* Input domains.                                                          *)
(***************************************************************************)
ChainIDs == {"chainA", "chainB"}
Callers == {"caller1", "caller2"}
Validators == 1..NumValidators

\* Validator weights, validator i having weight v[i]: with three validators
\* the first vector sums to 100 and {1, 2} weighs exactly 67.
WeightVectors == { <<66, 1, 33, 100>>, <<67, 33, 34, 66>> }

\* The signer bit sets messages are built with: the first k validators.
SignerSets == { 1..k : k \in 0..NumValidators }

(***************************************************************************)
(* Data.                                                                   *)
(***************************************************************************)

\* common.Address.Hash(): the 20-byte address left-padded to 32 bytes.
AddressHash(a) == [zeros |-> 12, address |-> a]

\* type WarpMessage struct
WarpMessage(origin, sender, dest, destAddr, payload) ==
    [OriginChainId |-> origin, OriginSenderAddress |-> sender,
     DestinationChainId |-> dest, DestinationAddress |-> destAddr,
     Payload |-> payload]

\* Codec.Marshal(Version, message): the version tag, the four fixed-width
\* fields in declaration order, then the payload behind its length.
Marshal(version, m) ==
    <<version, m.OriginChainId, m.OriginSenderAddress, m.DestinationChainId,
      m.DestinationAddress, Len(m.Payload)>> \o m.Payload

\* Codec.Unmarshal(bytes, &warpMessage)
Unmarshal(bytes) ==
    IF Len(bytes) < 6
    THEN [err |-> ErrCodecUnmarshal, msg |-> <<>>]
    ELSE IF bytes[1] # Version \/ bytes[6] # Len(bytes) - 6
    THEN [err |-> ErrCodecUnmarshal, msg |-> <<>>]
    ELSE [err |-> "",
          msg |-> WarpMessage(bytes[2], bytes[3], bytes[4], bytes[5],
                              SubSeq(bytes, 7, Len(bytes)))]

\* A raw signed message of the access list: either bytes that do not parse,
\* or the encoding of an unsigned message (destination chain, payload) with
\* a bit-set signature (the signer bits, and whether the aggregate BLS
\* signature is one of exactly these signers over this message).
GarbageBlob ==
    [wellFormed |-> FALSE, dest |-> "", signers |-> {}, sigValid |-> FALSE, payload |-> <<>>]
SignedBlob(dest, signers, sigValid, payload) ==
    [wellFormed |-> TRUE, dest |-> dest, signers |-> signers,
     sigValid |-> sigValid, payload |-> payload]

\* teleporter.ParseMessage(messageBytes)
ParseMessage(blob) ==
    IF blob.wellFormed
    THEN [err |-> "",
          msg |-> [DestinationChainID |-> blob.dest,
                   Payload |-> blob.payload,
                   Signature |-> [type |-> "BitSetSignature",
                                  Signers |-> blob.signers,
                                  valid |-> blob.sigValid]]]
    ELSE [err |-> ErrParseMessage, msg |-> <<>>]

\* A storageSlots byte slice: nil, empty, bytes that are no RLP list of byte
\* strings, or the RLP encoding of a list of raw signed messages.
NilSlots == [enc |-> "nil", items |-> <<>>]
EmptySlots == [enc |-> "empty", items |-> <<>>]
GarbageSlots == [enc |-> "garbage", items |-> <<>>]
RlpEncode(items) == [enc |-> "rlp", items |-> items]

\* len(storageSlots)
SlotsLen0(slots) == slots.enc \in {"nil", "empty"}
\* storageSlots == nil
SlotsIsNil(slots) == slots.enc = "nil"

\* rlp.DecodeBytes(storageSlots, &messagesBytes): empty input is an error of
\* the decoder (EOF), as is anything that is not a list of byte strings.
RlpDecodeBytes(slots) ==
    IF slots.enc = "rlp"
    THEN [err |-> "", list |-> slots.items]
    ELSE [err |-> ErrRlpDecode, list |-> <<>>]

\* Sequences over S of length at most n.
SeqUpTo(S, n) == UNION { [1..k -> S] : k \in 0..n }

(***************************************************************************)
(* Gas accounting and ABI decoding.                                        *)
(***************************************************************************)

\* deductGas(suppliedGas, requiredGas)
deductGas(suppliedGas, requiredGas) ==
    IF suppliedGas < requiredGas
    THEN [gas |-> 0, err |-> ErrOutOfGas]
    ELSE [gas |-> suppliedGas - requiredGas, err |-> ""]

\* A uint256 argument word: value = big * 2^63 + lo, so that big tells the
\* values that do not fit a signed 64-bit integer.
Word(big, lo) == [big |-> big, lo |-> lo]
\* IsInt64 that takes every word as fitting.
IsInt64Unchecked(w) == TRUE

\* big.Int.IsInt64()
IsInt64(w) == ~w.big
\* Int64 that loses the value: every index reads as the first position.
Int64AlwaysFirst(w) == 0

\* big.Int.Int64(), for a word that fits
Int64(w) == w.lo

\* UnpackGetVerifiedWarpMessageInput(input): input is the sequence of the
\* 32-byte words behind the selector; the one argument is the first word.
UnpackGetVerifiedWarpMessageInput(input) ==
    IF Len(input) < 1
    THEN [err |-> ErrAbiUnpack, value |-> Word(FALSE, 0)]
    ELSE [err |-> "", value |-> input[1]]

\* UnpackSendWarpMessageInput(input): (bytes32, bytes32, bytes)
UnpackSendWarpMessageInput(input) ==
    IF Len(input) < 3
    THEN [err |-> ErrAbiUnpack, inputStruct |-> <<>>]
    ELSE [err |-> "",
          inputStruct |-> [DestinationChainId |-> input[1],
                           DestinationAddress |-> input[2],
                           Payload |-> input[3]]]

\* PackGetBlockchainIdOutput(blockchainId)
PackGetBlockchainIdOutput(blockchainId) == <<blockchainId>>

\* PackGetVerifiedWarpMessageOutput(outputStruct)
PackGetVerifiedWarpMessageOutput(outputStruct) ==
    <<outputStruct.Message, outputStruct.Success>>

\* set.BitsFromBytes(bitSetSignature.Signers).HammingWeight()
HammingWeight(signers) == Cardinality(signers)

(***************************************************************************)
(* The handlers. accessibleState is the record                             *)
(*   [ChainID, slots, logs]: the snow context's chain id, the answer of    *)
(*   GetStateDB().GetPredicateStorageSlots(WarpMessengerAddress) as        *)
(*   [exists, value], and the StateDB's log list.                          *)
(* A handler returns (ret, remainingGas, err) and the log list it leaves.  *)
(***************************************************************************)
Return(ret, remainingGas, err, newLogs) ==
    [ret |-> ret, remainingGas |-> remainingGas, err |-> err, logs |-> newLogs]

\* getBlockchainId subtracting the cost itself, unchecked: below the cost
\* the unsigned difference wraps around (here at 2^31 - 1, the widest the
\* model checker's integers go).
getBlockchainIdUncheckedSubtraction(accessibleState, caller, addr, input, suppliedGas, readOnly) ==
    LET left == (suppliedGas - GetBlockchainIdGasCost) % 2147483647 IN
    IF readOnly
    THEN Return(<<>>, left, ErrWriteProtection, accessibleState.logs)
    ELSE Return(PackGetBlockchainIdOutput(accessibleState.ChainID), left, "",
                accessibleState.logs)

getBlockchainId(accessibleState, caller, addr, input, suppliedGas, readOnly) ==
    LET d == deductGas(suppliedGas, GetBlockchainIdGasCost) IN
    IF d.err # "" THEN Return(<<>>, 0, d.err, accessibleState.logs)
    ELSE IF readOnly
    THEN Return(<<>>, d.gas, ErrWriteProtection, accessibleState.logs)
    ELSE Return(PackGetBlockchainIdOutput(accessibleState.ChainID), d.gas, "",
                accessibleState.logs)

\* Lines 283-346 of getVerifiedWarpMessage: what follows the readOnly check,
\* with remainingGas the gas left by the base deduction.
getVerifiedWarpMessageBody(accessibleState, input, remainingGas) ==
    LET keep == accessibleState.logs
        u == UnpackGetVerifiedWarpMessageInput(input)
        slots == accessibleState.slots
        dec == RlpDecodeBytes(slots.value)
        messageIndex == Int64(u.value)
        p == ParseMessage(dec.list[messageIndex + 1])
        numSigners == HammingWeight(p.msg.Signature.Signers)
        d2 == deductGas(remainingGas, GetVerifiedWarpMessageGasCost * numSigners)
        um == Unmarshal(p.msg.Payload)
    IN
    IF u.err # "" THEN Return(<<>>, remainingGas, u.err, keep)
    ELSE IF ~slots.exists \/ SlotsIsNil(slots.value)
    THEN Return(<<>>, remainingGas, ErrMissingSlots, keep)
    ELSE IF dec.err # "" THEN Return(<<>>, remainingGas, dec.err, keep)
    ELSE IF ~IsInt64(u.value) THEN Return(<<>>, remainingGas, ErrInvalidIndex, keep)
    ELSE IF Len(dec.list) <= messageIndex
    THEN Return(<<>>, remainingGas, ErrInvalidIndex, keep)
    ELSE IF p.err # "" THEN Return(<<>>, remainingGas, p.err, keep)
    ELSE IF p.msg.Signature.type # "BitSetSignature"
    THEN Return(<<>>, remainingGas, ErrInvalidSignature, keep)
    ELSE IF d2.err # "" THEN Return(<<>>, 0, d2.err, keep)
    ELSE IF um.err # "" THEN Return(<<>>, d2.gas, um.err, keep)
    ELSE Return(PackGetVerifiedWarpMessageOutput([Message |-> um.msg, Success |-> TRUE]),
                d2.gas, "", keep)

\* getVerifiedWarpMessage returning no gas on every error, as it does when
\* out of gas.
getVerifiedWarpMessageConsumesAllOnError(accessibleState, caller, addr, input, suppliedGas, readOnly) ==
    LET d == deductGas(suppliedGas, GetVerifiedWarpMessageGasCost)
        r == getVerifiedWarpMessageBody(accessibleState, input, d.gas)
    IN
    IF d.err # "" THEN Return(<<>>, 0, d.err, accessibleState.logs)
    ELSE IF readOnly
    THEN Return(<<>>, d.gas, ErrWriteProtection, accessibleState.logs)
    ELSE IF r.err # "" THEN Return(<<>>, 0, r.err, r.logs)
    ELSE r

\* getVerifiedWarpMessage without its readOnly check.
getVerifiedWarpMessageNoReadOnlyCheck(accessibleState, caller, addr, input, suppliedGas, readOnly) ==
    LET d == deductGas(suppliedGas, GetVerifiedWarpMessageGasCost) IN
    IF d.err # "" THEN Return(<<>>, 0, d.err, accessibleState.logs)
    ELSE getVerifiedWarpMessageBody(accessibleState, input, d.gas)

\* Lines 276-282, then the rest of the handler.
getVerifiedWarpMessage(accessibleState, caller, addr, input, suppliedGas, readOnly) ==
    LET d == deductGas(suppliedGas, GetVerifiedWarpMessageGasCost) IN
    IF d.err # "" THEN Return(<<>>, 0, d.err, accessibleState.logs)
    ELSE IF readOnly
    THEN Return(<<>>, d.gas, ErrWriteProtection, accessibleState.logs)
    ELSE getVerifiedWarpMessageBody(accessibleState, input, d.gas)

\* sendWarpMessageBody with the origin chain id taken from the input's
\* destination and the destination from the local chain.
sendWarpMessageBodySwapsChains(accessibleState, caller, input, remainingGas) ==
    LET keep == accessibleState.logs
        u == UnpackSendWarpMessageInput(input)
        message == WarpMessage(u.inputStruct.DestinationChainId, AddressHash(caller),
                               accessibleState.ChainID,
                               u.inputStruct.DestinationAddress,
                               u.inputStruct.Payload)
        data == Marshal(Version, message)
        record == [address |-> WarpMessengerAddress,
                   topics |-> <<SubmitMessageEventID, message.OriginChainId,
                                message.DestinationChainId>>,
                   data |-> data]
    IN
    IF u.err # "" THEN Return(<<>>, remainingGas, u.err, keep)
    ELSE Return(<<>>, remainingGas, "", Append(keep, record))

\* sendWarpMessageBody with the log recorded under the caller's address.
sendWarpMessageBodyLogsAtCaller(accessibleState, caller, input, remainingGas) ==
    LET keep == accessibleState.logs
        u == UnpackSendWarpMessageInput(input)
        message == WarpMessage(accessibleState.ChainID, AddressHash(caller),
                               u.inputStruct.DestinationChainId,
                               u.inputStruct.DestinationAddress,
                               u.inputStruct.Payload)
        data == Marshal(Version, message)
        record == [address |-> caller,
                   topics |-> <<SubmitMessageEventID, message.OriginChainId,
                                message.DestinationChainId>>,
                   data |-> data]
    IN
    IF u.err # "" THEN Return(<<>>, remainingGas, u.err, keep)
    ELSE Return(<<>>, remainingGas, "", Append(keep, record))

\* Lines 370-401 of sendWarpMessage: what follows the readOnly check, with
\* remainingGas the gas left by the base deduction. AddLog appends the
\* record (its block number is left out).
sendWarpMessageBody(accessibleState, caller, input, remainingGas) ==
    LET keep == accessibleState.logs
        u == UnpackSendWarpMessageInput(input)
        message == WarpMessage(accessibleState.ChainID, AddressHash(caller),
                               u.inputStruct.DestinationChainId,
                               u.inputStruct.DestinationAddress,
                               u.inputStruct.Payload)
        data == Marshal(Version, message)
        record == [address |-> WarpMessengerAddress,
                   topics |-> <<SubmitMessageEventID, message.OriginChainId,
                                message.DestinationChainId>>,
                   data |-> data]
    IN
    IF u.err # "" THEN Return(<<>>, remainingGas, u.err, keep)
    ELSE Return(<<>>, remainingGas, "", Append(keep, record))

\* sendWarpMessage with the readOnly check after the log is recorded.
sendWarpMessageLogsBeforeReadOnlyCheck(accessibleState, caller, addr, input, suppliedGas, readOnly) ==
    LET d == deductGas(suppliedGas, SendWarpMessageGasCost)
        r == sendWarpMessageBody(accessibleState, caller, input, d.gas)
    IN
    IF d.err # "" THEN Return(<<>>, 0, d.err, accessibleState.logs)
    ELSE IF readOnly /\ r.err = ""
    THEN Return(<<>>, d.gas, ErrWriteProtection, r.logs)
    ELSE r

\* sendWarpMessage giving the whole supplied gas back when the input does
\* not unpack.
sendWarpMessageRefundsOnBadInput(accessibleState, caller, addr, input, suppliedGas, readOnly) ==
    LET d == deductGas(suppliedGas, SendWarpMessageGasCost)
        r == sendWarpMessageBody(accessibleState, caller, input, d.gas)
    IN
    IF d.err # "" THEN Return(<<>>, 0, d.err, accessibleState.logs)
    ELSE IF readOnly
    THEN Return(<<>>, d.gas, ErrWriteProtection, accessibleState.logs)
    ELSE IF r.err # "" THEN Return(<<>>, suppliedGas, r.err, r.logs)
    ELSE r

\* sendWarpMessage with the readOnly check before the gas deduction.
sendWarpMessageChecksReadOnlyFirst(accessibleState, caller, addr, input, suppliedGas, readOnly) ==
    LET d == deductGas(suppliedGas, SendWarpMessageGasCost) IN
    IF readOnly
    THEN Return(<<>>, suppliedGas, ErrWriteProtection, accessibleState.logs)
    ELSE IF d.err # "" THEN Return(<<>>, 0, d.err, accessibleState.logs)
    ELSE sendWarpMessageBody(accessibleState, caller, input, d.gas)

\* Lines 363-369, then the rest of the handler.
sendWarpMessage(accessibleState, caller, addr, input, suppliedGas, readOnly) ==
    LET d == deductGas(suppliedGas, SendWarpMessageGasCost) IN
    IF d.err # "" THEN Return(<<>>, 0, d.err, accessibleState.logs)
    ELSE IF readOnly
    THEN Return(<<>>, d.gas, ErrWriteProtection, accessibleState.logs)
    ELSE sendWarpMessageBody(accessibleState, caller, input, d.gas)

(***************************************************************************)
(* Configs. A config is an object: id is its address, builtBy the          *)
(* constructor that made it. A *big.Int is its address and its value; the  *)
(* nil pointer has no value (-1 stands for it).                            *)
(***************************************************************************)
NilBigInt == [ptr |-> "nil", val |-> -1]
\* The timestamps given: two numbers of value 1 at different addresses, one
\* of value 2, and nil.
BigInts ==
    {NilBigInt, [ptr |-> "p1", val |-> 1], [ptr |-> "p2", val |-> 1], [ptr |-> "p3", val |-> 2]}

\* type WarpMessengerConfig struct { UpgradeableConfig }
WarpMessengerConfig(blockTimestamp, disable) ==
    [type |-> "WarpMessengerConfig",
     UpgradeableConfig |-> [BlockTimestamp |-> blockTimestamp, Disable |-> disable]]

\* The config of another precompile: another type with the same embedded
\* UpgradeableConfig.
OtherPrecompileConfig(blockTimestamp, disable) ==
    [type |-> "OtherPrecompileConfig",
     UpgradeableConfig |-> [BlockTimestamp |-> blockTimestamp, Disable |-> disable]]

NewWarpMessengerConfig(blockTimestamp) == WarpMessengerConfig(blockTimestamp, FALSE)

NewDisableWarpMessengerConfig(blockTimestamp) == WarpMessengerConfig(blockTimestamp, TRUE)

\* UpgradeableConfig.Equal(other): the two timestamps have the same value
\* (or are both nil) and the two Disable flags are the same.
UpgradeableConfigEqual(c, other) ==
    /\ c.BlockTimestamp.val = other.BlockTimestamp.val
    /\ c.Disable = other.Disable

\* Equal comparing the addresses of the two configs.
EqualByIdentity(c, s) == c.id = s.id

\* (c *WarpMessengerConfig) Equal(s StatefulPrecompileConfig)
Equal(c, s) ==
    IF s.type # "WarpMessengerConfig" THEN FALSE
    ELSE UpgradeableConfigEqual(c.UpgradeableConfig, s.UpgradeableConfig)

\* The object made of config value cfg: the next address, and who built it.
NewObject(cfg, builtBy) ==
    [id |-> Len(configs) + 1, builtBy |-> builtBy, type |-> cfg.type,
     UpgradeableConfig |-> cfg.UpgradeableConfig]

NoEqualCall == [c |-> 0, s |-> 0, result |-> FALSE]

CfgIdle ==
    /\ configs = <<>>
    /\ equalCall = NoEqualCall

CallNewWarpMessengerConfig ==
    /\ Len(configs) < MaxConfigs
    /\ \E blockTimestamp \in BigInts :
        configs' = Append(configs, NewObject(NewWarpMessengerConfig(blockTimestamp),
                                             "NewWarpMessengerConfig"))
    /\ UNCHANGED <<chainID, execVars, predVars, agentVars, tipVars, loaderVars, equalCall>>

CallNewDisableWarpMessengerConfig ==
    /\ Len(configs) < MaxConfigs
    /\ \E blockTimestamp \in BigInts :
        configs' = Append(configs, NewObject(NewDisableWarpMessengerConfig(blockTimestamp),
                                             "NewDisableWarpMessengerConfig"))
    /\ UNCHANGED <<chainID, execVars, predVars, agentVars, tipVars, loaderVars, equalCall>>

\* &WarpMessengerConfig{UpgradeableConfig{...}}: a struct literal, or a
\* config read from the chain's JSON.
BuildWarpMessengerConfig ==
    /\ Len(configs) < MaxConfigs
    /\ \E blockTimestamp \in BigInts, disable \in BOOLEAN :
        configs' = Append(configs, NewObject(WarpMessengerConfig(blockTimestamp, disable),
                                             "literal"))
    /\ UNCHANGED <<chainID, execVars, predVars, agentVars, tipVars, loaderVars, equalCall>>

BuildOtherPrecompileConfig ==
    /\ Len(configs) < MaxConfigs
    /\ \E blockTimestamp \in BigInts, disable \in BOOLEAN :
        configs' = Append(configs, NewObject(OtherPrecompileConfig(blockTimestamp, disable),
                                             "literal"))
    /\ UNCHANGED <<chainID, execVars, predVars, agentVars, tipVars, loaderVars, equalCall>>

\* c.Equal(s), for a receiver that is a *WarpMessengerConfig and any config s.
CallEqual ==
    /\ \E c \in 1..Len(configs), s \in 1..Len(configs) :
        /\ configs[c].type = "WarpMessengerConfig"
        /\ equalCall' = [c |-> c, s |-> s, result |-> Equal(configs[c], configs[s])]
    /\ UNCHANGED <<chainID, execVars, predVars, agentVars, tipVars, loaderVars, configs>>

(***************************************************************************)
(* issueNAgent.Execute (cmd/simulator/txs/agent.go), one action per step.  *)
(* The sequence sends its transactions on a channel and closes it; the     *)
(* worker's IssueTx and ConfirmTx return nil or an error; the context may  *)
(* be cancelled at any time. An error is the record of its message, the    *)
(* index formatted into it and the error it wraps; NilError is nil.        *)
(***************************************************************************)
Error(msg, index, cause) == [msg |-> msg, index |-> index, cause |-> cause]
NilError == Error("", 0, "")
ErrBatchSize == Error("batch size n cannot be equal to 0", 0, "")
ErrContext == Error("context canceled", 0, "")
ErrWorker == "worker error"
ErrIssue(index, cause) == Error("failed to issue transaction %d: %w", index, cause)
ErrAwait(index, cause) == Error("failed to await transaction %d: %w", index, cause)

\* What a worker call returns: nil or the worker's error.
WorkerResults == {"", ErrWorker}

\* A call of the worker, as recorded.
WorkerCall(op, tx, err) == [op |-> op, tx |-> tx, err |-> err]

\* A return that skips the deferred function.
ReturnWithoutClose(err) ==
    /\ atrace' = atrace
    /\ aret' = err
    /\ apc' = "returned"

\* Lines 69-73: the deferred function runs at every return that follows
\* it: worker.Close is called, then Execute has returned err.
ReturnAfterDefer(err) ==
    /\ atrace' = Append(atrace, WorkerCall("Close", 0, ""))
    /\ aret' = err
    /\ apc' = "returned"

AgentIdle ==
    /\ an = 0
    /\ asrc = <<>>
    /\ abuf = <<>>
    /\ aclosed = FALSE
    /\ actx = FALSE
    /\ apc = "idle"
    /\ ai = 0
    /\ atxs = <<>>
    /\ amore = FALSE
    /\ aci = 0
    /\ aret = NilError
    /\ arecv = <<>>
    /\ atrace = <<>>

\* The sequence puts its next transaction on the channel (one at a time).
SequenceSend ==
    /\ asrc # <<>>
    /\ abuf = <<>>
    /\ abuf' = <<Head(asrc)>>
    /\ asrc' = Tail(asrc)
    /\ UNCHANGED <<chainID, execVars, predVars, cfgVars, tipVars, loaderVars,
                   an, aclosed, actx, apc, ai, atxs, amore, aci, aret, arecv, atrace>>

\* Lines 16-21: the sequence closes the channel when it has no further
\* transaction.
SequenceClose ==
    /\ asrc = <<>>
    /\ ~aclosed
    /\ aclosed' = TRUE
    /\ UNCHANGED <<chainID, execVars, predVars, cfgVars, tipVars, loaderVars,
                   an, asrc, abuf, actx, apc, ai, atxs, amore, aci, aret, arecv, atrace>>

\* The context is cancelled (a timeout, a signal, the caller).
CancelContext ==
    /\ ~actx
    /\ apc # "returned"
    /\ actx' = TRUE
    /\ UNCHANGED <<chainID, execVars, predVars, cfgVars, tipVars, loaderVars,
                   an, asrc, abuf, aclosed, apc, ai, atxs, amore, aci, aret, arecv, atrace>>

\* Lines 55-84: the check of n, the defer, and the first batch's variables.
ExecuteStart ==
    /\ apc = "start"
    /\ IF an = 0
       THEN /\ aret' = ErrBatchSize
            /\ apc' = "returned"
       ELSE /\ aret' = aret
            /\ apc' = "select"
    /\ UNCHANGED <<chainID, execVars, predVars, cfgVars, tipVars, loaderVars,
                   an, asrc, abuf, aclosed, actx, ai, atxs, amore, aci, arecv, atrace>>

\* A cancellation that first confirms the transactions of the batch.
SelectContextDoneConfirmsBatch ==
    /\ apc = "select"
    /\ actx
    /\ atrace' = atrace \o [j \in 1..Len(atxs) |-> WorkerCall("ConfirmTx", atxs[j], "")]
                       \o <<WorkerCall("Close", 0, "")>>
    /\ aret' = ErrContext
    /\ apc' = "returned"
    /\ UNCHANGED <<chainID, execVars, predVars, cfgVars, tipVars, loaderVars,
                   an, asrc, abuf, aclosed, actx, ai, atxs, amore, aci, arecv>>

\* Lines 88-89: the select takes the case of the cancelled context.
SelectContextDone ==
    /\ apc = "select"
    /\ actx
    /\ ReturnAfterDefer(ErrContext)
    /\ UNCHANGED <<chainID, execVars, predVars, cfgVars, tipVars, loaderVars,
                   an, asrc, abuf, aclosed, actx, ai, atxs, amore, aci, arecv>>

\* An issuance loop without the bound on i.
AfterIssueUnbounded(i) == "select"

\* Line 86, after i++: the issuance loop goes on while i < n.
AfterIssue(i) == IF i < an THEN "select" ELSE "confirm"

\* Lines 90-100: the select receives a transaction and the worker issues it.
SelectReceiveTx ==
    /\ apc = "select"
    /\ abuf # <<>>
    /\ LET tx == Head(abuf) IN
        /\ abuf' = Tail(abuf)
        /\ arecv' = Append(arecv, tx)
        /\ amore' = TRUE
        /\ \E err \in WorkerResults :
            IF err # ""
            THEN /\ atrace' = atrace \o <<WorkerCall("IssueTx", tx, err),
                                          WorkerCall("Close", 0, "")>>
                 /\ aret' = ErrIssue(Len(atxs), err)
                 /\ apc' = "returned"
                 /\ UNCHANGED <<ai, atxs, aci>>
            ELSE /\ atrace' = Append(atrace, WorkerCall("IssueTx", tx, ""))
                 /\ atxs' = Append(atxs, tx)
                 /\ ai' = ai + 1
                 /\ apc' = AfterIssue(ai + 1)
                 /\ aci' = 1
                 /\ aret' = aret
    /\ UNCHANGED <<chainID, execVars, predVars, cfgVars, tipVars, loaderVars, an, asrc, aclosed, actx>>

\* A closed channel that makes Execute drop the batch it was issuing.
SelectChannelClosedDropsBatch ==
    /\ apc = "select"
    /\ abuf = <<>>
    /\ aclosed
    /\ amore' = FALSE
    /\ apc' = "confirm"
    /\ aci' = Len(atxs) + 1
    /\ UNCHANGED <<chainID, execVars, predVars, cfgVars, tipVars, loaderVars,
                   an, asrc, abuf, aclosed, actx, ai, atxs, aret, arecv, atrace>>

\* Lines 90-93: the select finds the channel closed and the loop is left.
SelectChannelClosed ==
    /\ apc = "select"
    /\ abuf = <<>>
    /\ aclosed
    /\ amore' = FALSE
    /\ apc' = "confirm"
    /\ aci' = 1
    /\ UNCHANGED <<chainID, execVars, predVars, cfgVars, tipVars, loaderVars,
                   an, asrc, abuf, aclosed, actx, ai, atxs, aret, arecv, atrace>>

\* A confirmation loop that goes on after an error.
ConfirmNextContinuesOnError ==
    /\ apc = "confirm"
    /\ aci <= Len(atxs)
    /\ \E err \in WorkerResults :
        /\ atrace' = Append(atrace, WorkerCall("ConfirmTx", atxs[aci], err))
        /\ aci' = aci + 1
        /\ UNCHANGED <<aret, apc>>
    /\ UNCHANGED <<chainID, execVars, predVars, cfgVars, tipVars, loaderVars,
                   an, asrc, abuf, aclosed, actx, ai, atxs, amore, arecv>>

\* Lines 110-118: the worker confirms the next transaction of the batch.
ConfirmNext ==
    /\ apc = "confirm"
    /\ aci <= Len(atxs)
    /\ \E err \in WorkerResults :
        IF err # ""
        THEN /\ atrace' = atrace \o <<WorkerCall("ConfirmTx", atxs[aci], err),
                                      WorkerCall("Close", 0, "")>>
             /\ aret' = ErrAwait(aci - 1, err)
             /\ apc' = "returned"
             /\ aci' = aci
        ELSE /\ atrace' = Append(atrace, WorkerCall("ConfirmTx", atxs[aci], ""))
             /\ aci' = aci + 1
             /\ UNCHANGED <<aret, apc>>
    /\ UNCHANGED <<chainID, execVars, predVars, cfgVars, tipVars, loaderVars,
                   an, asrc, abuf, aclosed, actx, ai, atxs, amore, arecv>>

\* An end of batch that looks at the size of the batch instead of moreTxs.
BatchEndWhenBatchNotFull ==
    /\ apc = "confirm"
    /\ aci > Len(atxs)
    /\ IF Len(atxs) < an /\ Len(atxs) > 0
       THEN /\ ReturnAfterDefer(NilError)
            /\ UNCHANGED <<ai, atxs, amore, aci>>
       ELSE /\ apc' = "select"
            /\ ai' = 0
            /\ atxs' = <<>>
            /\ amore' = FALSE
            /\ aci' = 0
            /\ UNCHANGED <<aret, atrace>>
    /\ UNCHANGED <<chainID, execVars, predVars, cfgVars, tipVars, loaderVars,
                   an, asrc, abuf, aclosed, actx, arecv>>

\* Lines 125-134 and 78-82: after the confirmation loop, return nil when
\* the channel was found closed, else start the next batch.
BatchEnd ==
    /\ apc = "confirm"
    /\ aci > Len(atxs)
    /\ IF ~amore
       THEN /\ ReturnAfterDefer(NilError)
            /\ UNCHANGED <<ai, atxs, amore, aci>>
       ELSE /\ apc' = "select"
            /\ ai' = 0
            /\ atxs' = <<>>
            /\ amore' = FALSE
            /\ aci' = 0
            /\ UNCHANGED <<aret, atrace>>
    /\ UNCHANGED <<chainID, execVars, predVars, cfgVars, tipVars, loaderVars,
                   an, asrc, abuf, aclosed, actx, arecv>>

(***************************************************************************)
(* Loader.ConfirmReachedTip (cmd/simulator/load/loader.go), one action per *)
(* step of the initial pass and of every polling goroutine. A client's     *)
(* chain grows on its own; client.LatestHeight returns the height of the   *)
(* chain or an error; the context may be cancelled at any time.            *)
(***************************************************************************)
Clients == 1..NumClients
ErrLatestHeight == "latest height error"
ErrClientFailed(i, cause) == Error("client %d failed to get latest height: %w", i, cause)
ErrPollFailed(i, cause) == Error("failed to get latest height from client %d: %w", i, cause)

\* What client.LatestHeight returns beside the height: nil or an error.
LatestHeightResults == {"", ErrLatestHeight}

\* A maximum that forgets the heights seen before.
NewMaxHeightIsLatest(maxHeight, latestHeight) == latestHeight

\* Lines 92-94: maxHeight after a client reported latestHeight.
NewMaxHeight(maxHeight, latestHeight) ==
    IF latestHeight > maxHeight THEN latestHeight ELSE maxHeight

\* errgroup.Group: the error of the group is the first one returned.
GroupError(err) == IF tegerr = NilError THEN err ELSE tegerr

TipIdle ==
    /\ theight = [c \in Clients |-> 0]
    /\ tctx = FALSE
    /\ tpc = "idle"
    /\ ti = 0
    /\ tmax = 0
    /\ tppc = [c \in Clients |-> "idle"]
    /\ tegerr = NilError
    /\ tret = NilError
    /\ tinit = [c \in Clients |-> -1]
    /\ treported = [c \in Clients |-> -1]
    /\ tfailed = FALSE
    /\ tdone = FALSE
    /\ tcancelBelow = FALSE

\* The chain of a client accepts a block.
HeightAdvance(c) ==
    /\ tpc \in {"pass", "wait"}
    /\ theight[c] < MaxHeight
    /\ theight' = [theight EXCEPT ![c] = @ + 1]
    /\ UNCHANGED <<chainID, execVars, predVars, cfgVars, agentVars, loaderVars,
                   tctx, tpc, ti, tmax, tppc, tegerr, tret, tinit, treported,
                   tfailed, tdone, tcancelBelow>>

\* A client whose poller is still running and whose chain is below maxHeight.
PolledBelowMax == \E c \in Clients : tppc[c] \in {"poll", "sleep"} /\ theight[c] < tmax

\* The context of ConfirmReachedTip is cancelled.
TipCancelContext ==
    /\ tpc \in {"pass", "wait"}
    /\ ~tctx
    /\ tctx' = TRUE
    /\ tcancelBelow' = (tpc = "wait" /\ PolledBelowMax)
    /\ UNCHANGED <<chainID, execVars, predVars, cfgVars, agentVars, loaderVars,
                   theight, tpc, ti, tmax, tppc, tegerr, tret, tinit, treported,
                   tfailed, tdone>>

\* Lines 87-95: one iteration of the initial pass.
InitialPass ==
    /\ tpc = "pass"
    /\ ti <= NumClients
    /\ \E err \in LatestHeightResults :
        IF err # ""
        THEN /\ tret' = ErrClientFailed(ti - 1, err)
             /\ tpc' = "returned"
             /\ tfailed' = TRUE
             /\ UNCHANGED <<ti, tmax, tinit>>
        ELSE /\ tmax' = NewMaxHeight(tmax, theight[ti])
             /\ tinit' = [tinit EXCEPT ![ti] = theight[ti]]
             /\ ti' = ti + 1
             /\ UNCHANGED <<tret, tpc, tfailed>>
    /\ UNCHANGED <<chainID, execVars, predVars, cfgVars, agentVars, loaderVars,
                   theight, tctx, tppc, tegerr, treported, tdone, tcancelBelow>>

\* Lines 97-119: the goroutines are started and ConfirmReachedTip waits.
StartPollers ==
    /\ tpc = "pass"
    /\ ti > NumClients
    /\ tpc' = "wait"
    /\ tppc' = [c \in Clients |-> "poll"]
    /\ UNCHANGED <<chainID, execVars, predVars, cfgVars, agentVars, loaderVars,
                   theight, tctx, ti, tmax, tegerr, tret, tinit, treported,
                   tfailed, tdone, tcancelBelow>>

\* A poller that returns only when its client is above maxHeight.
PollRequiresAbove(c) ==
    /\ tpc = "wait"
    /\ tppc[c] = "poll"
    /\ \E err \in LatestHeightResults :
        IF err # ""
        THEN /\ tegerr' = GroupError(ErrPollFailed(c - 1, err))
             /\ tppc' = [tppc EXCEPT ![c] = "done"]
             /\ tfailed' = TRUE
             /\ UNCHANGED <<treported, tdone>>
        ELSE /\ treported' = [treported EXCEPT ![c] = theight[c]]
             /\ tfailed' = tfailed
             /\ IF theight[c] > tmax
                THEN /\ tppc' = [tppc EXCEPT ![c] = "done"]
                     /\ UNCHANGED <<tegerr, tdone>>
                ELSE IF tctx
                THEN /\ tegerr' = GroupError(ErrPollFailed(c - 1, ErrContext.msg))
                     /\ tppc' = [tppc EXCEPT ![c] = "done"]
                     /\ tdone' = TRUE
                ELSE /\ tppc' = [tppc EXCEPT ![c] = "sleep"]
                     /\ UNCHANGED <<tegerr, tdone>>
    /\ UNCHANGED <<chainID, execVars, predVars, cfgVars, agentVars, loaderVars,
                   theight, tctx, tpc, ti, tmax, tret, tinit, tcancelBelow>>

\* Lines 103-112: a poller asks its client for the height; below maxHeight
\* it enters the select, where a context already cancelled is the only
\* case that is ready.
Poll(c) ==
    /\ tpc = "wait"
    /\ tppc[c] = "poll"
    /\ \E err \in LatestHeightResults :
        IF err # ""
        THEN /\ tegerr' = GroupError(ErrPollFailed(c - 1, err))
             /\ tppc' = [tppc EXCEPT ![c] = "done"]
             /\ tfailed' = TRUE
             /\ UNCHANGED <<treported, tdone>>
        ELSE /\ treported' = [treported EXCEPT ![c] = theight[c]]
             /\ tfailed' = tfailed
             /\ IF theight[c] >= tmax
                THEN /\ tppc' = [tppc EXCEPT ![c] = "done"]
                     /\ UNCHANGED <<tegerr, tdone>>
                ELSE IF tctx
                THEN /\ tegerr' = GroupError(ErrPollFailed(c - 1, ErrContext.msg))
                     /\ tppc' = [tppc EXCEPT ![c] = "done"]
                     /\ tdone' = TRUE
                ELSE /\ tppc' = [tppc EXCEPT ![c] = "sleep"]
                     /\ UNCHANGED <<tegerr, tdone>>
    /\ UNCHANGED <<chainID, execVars, predVars, cfgVars, agentVars, loaderVars,
                   theight, tctx, tpc, ti, tmax, tret, tinit, tcancelBelow>>

\* Lines 110-112: the context is cancelled while the poller waits.
PollContextDone(c) ==
    /\ tpc = "wait"
    /\ tppc[c] = "sleep"
    /\ tctx
    /\ tegerr' = GroupError(ErrPollFailed(c - 1, ErrContext.msg))
    /\ tppc' = [tppc EXCEPT ![c] = "done"]
    /\ tdone' = TRUE
    /\ UNCHANGED <<chainID, execVars, predVars, cfgVars, agentVars, loaderVars,
                   theight, tctx, tpc, ti, tmax, tret, tinit, treported,
                   tfailed, tcancelBelow>>

\* Line 113: the second of waiting has passed.
PollTimer(c) ==
    /\ tpc = "wait"
    /\ tppc[c] = "sleep"
    /\ tppc' = [tppc EXCEPT ![c] = "poll"]
    /\ UNCHANGED <<chainID, execVars, predVars, cfgVars, agentVars, loaderVars,
                   theight, tctx, tpc, ti, tmax, tegerr, tret, tinit, treported,
                   tfailed, tdone, tcancelBelow>>

\* Line 119: every goroutine has returned, eg.Wait returns the group's error.
WaitReturns ==
    /\ tpc = "wait"
    /\ \A c \in Clients : tppc[c] = "done"
    /\ tret' = tegerr
    /\ tpc' = "returned"
    /\ UNCHANGED <<chainID, execVars, predVars, cfgVars, agentVars, loaderVars,
                   theight, tctx, ti, tmax, tppc, tegerr, tinit, treported,
                   tfailed, tdone, tcancelBelow>>

(***************************************************************************)
(* Loader.Execute (cmd/simulator/load/loader.go 55-77). Sequences and      *)
(* clients are named by their index (1-based). The goroutine of an agent   *)
(* runs its Execute, which gives transactions of the agent's sequence to   *)
(* the agent's worker and returns one of the errors of issueNAgent.Execute *)
(* or nil.                                                                 *)
(***************************************************************************)
\* agent.go 45-51: NewIssueNAgent.
NewIssueNAgent(sequence, worker, n) ==
    [sequence |-> sequence, worker |-> worker, n |-> n]

\* What Execute of an agent with batch size n can return (agent.go 54-135).
AgentResults(n) ==
    IF n = 0
    THEN {ErrBatchSize}
    ELSE {NilError, ErrIssue(0, ErrWorker), ErrAwait(0, ErrWorker)}
         \cup (IF lctx THEN {ErrContext} ELSE {})

\* errgroup.Group: the error of the group is the first one returned.
LoaderGroupError(err) == IF legerr = NilError THEN err ELSE legerr

LoaderIdle ==
    /\ lseqs = 0
    /\ lclients = 0
    /\ lbatch = 0
    /\ lctx = FALSE
    /\ lpc = "idle"
    /\ lagents = <<>>
    /\ lapc = <<>>
    /\ lares = <<>>
    /\ lissued = <<>>
    /\ legerr = NilError
    /\ lret = NilError

\* The context of Loader.Execute is cancelled (a timeout, SIGINT).
LoaderCancelContext ==
    /\ lpc \in {"build", "wait"}
    /\ ~lctx
    /\ lctx' = TRUE
    /\ UNCHANGED <<chainID, execVars, predVars, cfgVars, agentVars, tipVars,
                   lseqs, lclients, lbatch, lpc, lagents, lapc, lares, lissued, legerr, lret>>

\* Lines 57-60: one iteration of the loop that builds the agents.
BuildAgent ==
    /\ lpc = "build"
    /\ Len(lagents) < lseqs
    /\ LET i == Len(lagents) + 1 IN
        lagents' = Append(lagents, NewIssueNAgent(i, i, lbatch))
    /\ UNCHANGED <<chainID, execVars, predVars, cfgVars, agentVars, tipVars,
                   lseqs, lclients, lbatch, lctx, lpc, lapc, lares, lissued, legerr, lret>>

\* Lines 63-72: every agent gets its goroutine and Execute waits.
StartAgents ==
    /\ lpc = "build"
    /\ Len(lagents) = lseqs
    /\ lpc' = "wait"
    /\ lapc' = [i \in 1..lseqs |-> "running"]
    /\ UNCHANGED <<chainID, execVars, predVars, cfgVars, agentVars, tipVars,
                   lseqs, lclients, lbatch, lctx, lagents, lares, lissued, legerr, lret>>

\* Lines 66-68, agent.go 90-100: an agent gives a transaction of its
\* sequence to its worker.
AgentIssues(i) ==
    /\ lpc = "wait"
    /\ i <= lseqs
    /\ lapc[i] = "running"
    /\ lagents[i].n > 0
    /\ lagents[i].sequence \notin lissued[lagents[i].worker]
    /\ lissued' = [lissued EXCEPT ![lagents[i].worker] = @ \cup {lagents[i].sequence}]
    /\ UNCHANGED <<chainID, execVars, predVars, cfgVars, agentVars, tipVars,
                   lseqs, lclients, lbatch, lctx, lpc, lagents, lapc, lares, legerr, lret>>

\* Lines 66-68: Execute of an agent returns and the group keeps its error.
AgentReturns(i) ==
    /\ lpc = "wait"
    /\ i <= lseqs
    /\ lapc[i] = "running"
    /\ \E err \in AgentResults(lagents[i].n) :
        /\ lares' = [lares EXCEPT ![i] = err]
        /\ legerr' = IF err = NilError THEN legerr ELSE LoaderGroupError(err)
    /\ lapc' = [lapc EXCEPT ![i] = "returned"]
    /\ UNCHANGED <<chainID, execVars, predVars, cfgVars, agentVars, tipVars,
                   lseqs, lclients, lbatch, lctx, lpc, lagents, lissued, lret>>

\* A wait that ends at the first error of the group.
LoaderWaitReturnsOnFirstError ==
    /\ lpc = "wait"
    /\ \/ \A i \in 1..lseqs : lapc[i] = "returned"
       \/ legerr # NilError
    /\ lret' = legerr
    /\ lpc' = "returned"
    /\ UNCHANGED <<chainID, execVars, predVars, cfgVars, agentVars, tipVars,
                   lseqs, lclients, lbatch, lctx, lagents, lapc, lares, lissued, legerr>>

\* Lines 72-76: every goroutine has returned, eg.Wait returns the group's
\* error and Execute returns it.
LoaderWait ==
    /\ lpc = "wait"
    /\ \A i \in 1..lseqs : lapc[i] = "returned"
    /\ lret' = legerr
    /\ lpc' = "returned"
    /\ UNCHANGED <<chainID, execVars, predVars, cfgVars, agentVars, tipVars,
                   lseqs, lclients, lbatch, lctx, lagents, lapc, lares, lissued, legerr>>

(***************************************************************************)
(* Handler calls: the inputs of one call and the call itself.              *)
(***************************************************************************)

\* Warp messages carried as payload by the signed messages received.
ReceivedMessages ==
    { WarpMessage("chainB", AddressHash("caller1"), "chainA", "addr1", <<>>),
      WarpMessage("chainA", AddressHash("caller2"), "chainB", "addr1", <<5>>) }

\* Raw signed messages met at execution.
ExecBlobs ==
    {GarbageBlob}
    \cup { SignedBlob("chainA", sg, TRUE, Marshal(Version, m)) :
             sg \in SignerSets,
             m \in {WarpMessage("chainB", AddressHash("caller1"), "chainA", "addr1", <<>>)} }
    \cup { SignedBlob("chainA", {1}, TRUE, Marshal(Version, m)) : m \in ReceivedMessages }
    \cup { SignedBlob("chainA", {1}, TRUE, <<>>) }

\* Answers of GetPredicateStorageSlots: no entry, a nil entry, or bytes.
NoSlots == [exists |-> FALSE, value |-> NilSlots]
SlotAnswers ==
    { NoSlots,
      [exists |-> TRUE, value |-> NilSlots],
      [exists |-> TRUE, value |-> EmptySlots],
      [exists |-> TRUE, value |-> GarbageSlots] }
    \cup { [exists |-> TRUE, value |-> RlpEncode(l)] : l \in SeqUpTo(ExecBlobs, MaxMsgs) }

GetBlockchainIdGas ==
    { 0, GetBlockchainIdGasCost - 1, GetBlockchainIdGasCost,
      GetBlockchainIdGasCost + 1, SendWarpMessageGasCost }
GetVerifiedWarpMessageGas ==
    { GetVerifiedWarpMessageGasCost - 1, GetVerifiedWarpMessageGasCost }
    \cup { GetVerifiedWarpMessageGasCost
             + k * GetVerifiedWarpMessageGasCostPerAggregatedKey : k \in 1..NumValidators }
    \cup { GetVerifiedWarpMessageGasCost + k * GetVerifiedWarpMessageGasCost :
             k \in 1..NumValidators }
    \cup { 2 * GetVerifiedWarpMessageGasCost - 1 }
SendWarpMessageGas ==
    { 0, SendWarpMessageGasCost - 1, SendWarpMessageGasCost, SendWarpMessageGasCost + 1 }

GetVerifiedWarpMessageInputs ==
    { <<>>, <<Word(TRUE, 0)>> } \cup { <<Word(FALSE, i)>> : i \in 0..MaxMsgs }
SendWarpMessageInputs ==
    { <<>>, <<"chainA", "addr1", <<>>>>, <<"chainB", "addr1", <<5>>>> }

NoCall ==
    [fn |-> "none", caller |-> "", input |-> <<>>, suppliedGas |-> 0, readOnly |-> FALSE,
     slots |-> NoSlots, logsBefore |-> <<>>, ret |-> <<>>, remainingGas |-> 0, err |-> ""]

AccessibleState(slots) == [ChainID |-> chainID, slots |-> slots, logs |-> logs]

\* The record of a call and of what it returned.
Called(fn, caller, input, suppliedGas, readOnly, slots, r) ==
    [fn |-> fn, caller |-> caller, input |-> input, suppliedGas |-> suppliedGas,
     readOnly |-> readOnly, slots |-> slots, logsBefore |-> logs,
     ret |-> r.ret, remainingGas |-> r.remainingGas, err |-> r.err]

\* A handler runs only when no call is in flight.
CallGetBlockchainId ==
    /\ call.fn = "none"
    /\ \E suppliedGas \in GetBlockchainIdGas, readOnly \in BOOLEAN :
        LET r == getBlockchainId(AccessibleState(NoSlots), "caller1", WarpMessengerAddress,
                                 <<>>, suppliedGas, readOnly)
        IN /\ call' = Called("getBlockchainId", "caller1", <<>>, suppliedGas, readOnly,
                             NoSlots, r)
           /\ logs' = r.logs
           /\ UNCHANGED <<chainID, predVars, cfgVars, agentVars, tipVars, loaderVars>>

CallGetVerifiedWarpMessage ==
    /\ call.fn = "none"
    /\ \E input \in GetVerifiedWarpMessageInputs, suppliedGas \in GetVerifiedWarpMessageGas,
       readOnly \in BOOLEAN, slots \in SlotAnswers :
        LET r == getVerifiedWarpMessage(AccessibleState(slots), "caller1",
                                        WarpMessengerAddress, input, suppliedGas, readOnly)
        IN /\ call' = Called("getVerifiedWarpMessage", "caller1", input, suppliedGas,
                             readOnly, slots, r)
           /\ logs' = r.logs
           /\ UNCHANGED <<chainID, predVars, cfgVars, agentVars, tipVars, loaderVars>>

CallSendWarpMessage ==
    /\ call.fn = "none"
    /\ Len(logs) < MaxLogs
    /\ \E caller \in Callers, input \in SendWarpMessageInputs,
          suppliedGas \in SendWarpMessageGas, readOnly \in BOOLEAN :
        LET r == sendWarpMessage(AccessibleState(NoSlots), caller, WarpMessengerAddress,
                                 input, suppliedGas, readOnly)
        IN /\ call' = Called("sendWarpMessage", caller, input, suppliedGas, readOnly,
                             NoSlots, r)
           /\ logs' = r.logs
           /\ UNCHANGED <<chainID, predVars, cfgVars, agentVars, tipVars, loaderVars>>

\* The calling contract takes the returned values: the call is over.
ReturnToCaller ==
    /\ call.fn # "none"
    /\ call' = NoCall
    /\ UNCHANGED <<chainID, logs, predVars, cfgVars, agentVars, tipVars, loaderVars>>

PredIdle ==
    /\ weights = <<>>
    /\ pctx = [ProposerVMBlockCtx |-> FALSE]
    /\ pslots = NilSlots
    /\ ppc = "idle"
    /\ pmsgs = <<>>
    /\ pidx = 0
    /\ pmsg = <<>>
    /\ presult = ""
    /\ ptrace = <<>>

Init ==
    /\ chainID \in ChainIDs
    /\ logs = <<>>
    /\ call = NoCall
    /\ PredIdle
    /\ CfgIdle
    /\ AgentIdle
    /\ TipIdle
    /\ LoaderIdle

Next ==
    \/ CallGetBlockchainId
    \/ CallGetVerifiedWarpMessage
    \/ CallSendWarpMessage
    \/ ReturnToCaller

Spec == Init /\ [][Next]_vars

(***************************************************************************)
(* The predicate: WarpMessengerConfig.verifyPredicate, one action per      *)
(* step of the function. ptrace records the library calls it makes.        *)
(***************************************************************************)

RECURSIVE SumWeight(_, _)
\* teleporter.SumWeight: the weight of a set of validators under w.
SumWeight(vs, w) ==
    IF vs = {} THEN 0
    ELSE LET v == CHOOSE x \in vs : TRUE IN w[v] + SumWeight(vs \ {v}, w)

ErrInsufficientWeight == "teleporter: signature weight is insufficient"

\* teleporter.BitSetSignature.Verify(ctx, msg, validatorState, pChainHeight,
\* quorumNum, quorumDen): the signers' weight must reach quorumNum/quorumDen
\* of the total weight of the validator set at the height, and the
\* aggregate signature must be a signature of these signers.
SignatureVerify(message, w, quorumNum, quorumDen) ==
    LET sigWeight == SumWeight(message.Signature.Signers, w)
        totalWeight == SumWeight(Validators, w)
    IN IF totalWeight * quorumNum > sigWeight * quorumDen
       THEN ErrInsufficientWeight
       ELSE IF ~message.Signature.valid THEN ErrSignatureVerify
       ELSE ""

\* Raw signed messages met by the predicate.
PredBlobs ==
    {GarbageBlob}
    \cup { SignedBlob(d, sg, v, <<>>) : d \in ChainIDs, sg \in SignerSets, v \in BOOLEAN }

PredSlots ==
    { NilSlots, EmptySlots, GarbageSlots }
    \cup { RlpEncode(l) : l \in SeqUpTo(PredBlobs, MaxMsgs) }

Event(op, i) == [op |-> op, i |-> i]

\* Lines 165-182: the context check, the empty payload, the RLP decoding.
\* ret tells whether the function returns here.
verifyPredicateEntryReadsEmptyFirst(predicateContext, storageSlots) ==
    LET dec == RlpDecodeBytes(storageSlots) IN
    IF SlotsLen0(storageSlots)
    THEN [ret |-> TRUE, err |-> "", list |-> <<>>, trace |-> <<>>]
    ELSE IF ~predicateContext.ProposerVMBlockCtx
    THEN [ret |-> TRUE, err |-> ErrMissingProposerCtx, list |-> <<>>, trace |-> <<>>]
    ELSE IF dec.err # ""
    THEN [ret |-> TRUE, err |-> dec.err, list |-> <<>>, trace |-> <<Event("decode", 0)>>]
    ELSE [ret |-> FALSE, err |-> "", list |-> dec.list, trace |-> <<Event("decode", 0)>>]

verifyPredicateEntryDecodesEmpty(predicateContext, storageSlots) ==
    LET dec == RlpDecodeBytes(storageSlots) IN
    IF ~predicateContext.ProposerVMBlockCtx
    THEN [ret |-> TRUE, err |-> ErrMissingProposerCtx, list |-> <<>>, trace |-> <<>>]
    ELSE IF dec.err # ""
    THEN [ret |-> TRUE, err |-> dec.err, list |-> <<>>, trace |-> <<Event("decode", 0)>>]
    ELSE [ret |-> FALSE, err |-> "", list |-> dec.list, trace |-> <<Event("decode", 0)>>]

verifyPredicateEntry(predicateContext, storageSlots) ==
    LET dec == RlpDecodeBytes(storageSlots) IN
    IF ~predicateContext.ProposerVMBlockCtx
    THEN [ret |-> TRUE, err |-> ErrMissingProposerCtx, list |-> <<>>, trace |-> <<>>]
    ELSE IF SlotsLen0(storageSlots)
    THEN [ret |-> TRUE, err |-> "", list |-> <<>>, trace |-> <<>>]
    ELSE IF dec.err # ""
    THEN [ret |-> TRUE, err |-> dec.err, list |-> <<>>, trace |-> <<Event("decode", 0)>>]
    ELSE [ret |-> FALSE, err |-> "", list |-> dec.list, trace |-> <<Event("decode", 0)>>]

\* Line 192: message.DestinationChainID != predicateContext.SnowCtx.ChainID
WrongChainIDNeverFound(message, localChainID) == FALSE

WrongChainID(message, localChainID) == message.DestinationChainID # localChainID

\* Lines 196-202: message.Signature.Verify(..., WarpQuorumNumerator, WarpQuorumDenominator)
VerifyMessageSignatureSwapped(message, w) ==
    SignatureVerify(message, w, WarpQuorumDenominator, WarpQuorumNumerator)

VerifyMessageSignature(message, w) ==
    SignatureVerify(message, w, WarpQuorumNumerator, WarpQuorumDenominator)

VerifyEntry ==
    /\ ppc = "entry"
    /\ LET e == verifyPredicateEntry(pctx, pslots) IN
        /\ ptrace' = ptrace \o e.trace
        /\ pmsgs' = e.list
        /\ IF e.ret
           THEN ppc' = "done" /\ presult' = e.err /\ pidx' = pidx
           ELSE ppc' = "loop" /\ presult' = presult /\ pidx' = 1
    /\ UNCHANGED <<chainID, execVars, cfgVars, agentVars, tipVars, loaderVars, weights, pctx, pslots, pmsg>>

\* Lines 185-189: the next message of the range loop is parsed.
LoopParse ==
    /\ ppc = "loop"
    /\ pidx <= Len(pmsgs)
    /\ LET p == ParseMessage(pmsgs[pidx]) IN
        /\ ptrace' = Append(ptrace, Event("parse", pidx))
        /\ IF p.err # ""
           THEN ppc' = "done" /\ presult' = p.err /\ pmsg' = pmsg
           ELSE ppc' = "chain" /\ presult' = presult /\ pmsg' = p.msg
    /\ UNCHANGED <<chainID, execVars, cfgVars, agentVars, tipVars, loaderVars, weights, pctx, pslots, pmsgs, pidx>>

\* Lines 192-194
CheckChainID ==
    /\ ppc = "chain"
    /\ IF WrongChainID(pmsg, chainID)
       THEN ppc' = "done" /\ presult' = ErrWrongChainID
       ELSE ppc' = "verify" /\ presult' = presult
    /\ UNCHANGED <<chainID, execVars, cfgVars, agentVars, tipVars, loaderVars, weights, pctx, pslots, pmsgs, pidx, pmsg, ptrace>>

\* Lines 196-207, verifying against the validator set of whatever height
\* the node is at instead of the set at the pinned height.
VerifySignatureAtAnyHeight ==
    /\ ppc = "verify"
    /\ \E w \in WeightVectors \cup {[v \in 1..(NumValidators + 1) |-> 1]} :
        LET err == VerifyMessageSignature(pmsg, w) IN
        /\ ptrace' = Append(ptrace, Event("verify", pidx))
        /\ IF err # ""
           THEN ppc' = "done" /\ presult' = err /\ pidx' = pidx
           ELSE ppc' = "loop" /\ presult' = presult /\ pidx' = pidx + 1
    /\ UNCHANGED <<chainID, execVars, cfgVars, agentVars, tipVars, loaderVars, weights, pctx, pslots, pmsgs, pmsg>>

\* Lines 196-207, with a verification error that does not end the loop.
VerifySignatureBestEffort ==
    /\ ppc = "verify"
    /\ LET err == VerifyMessageSignature(pmsg, weights) IN
        /\ ptrace' = Append(ptrace, Event("verify", pidx))
        /\ ppc' = "loop" /\ pidx' = pidx + 1
        /\ presult' = IF err # "" THEN err ELSE presult
    /\ UNCHANGED <<chainID, execVars, cfgVars, agentVars, tipVars, loaderVars, weights, pctx, pslots, pmsgs, pmsg>>

\* Lines 196-207, returning nil from inside the loop.
VerifySignatureReturnsEarly ==
    /\ ppc = "verify"
    /\ LET err == VerifyMessageSignature(pmsg, weights) IN
        /\ ptrace' = Append(ptrace, Event("verify", pidx))
        /\ ppc' = "done" /\ presult' = err /\ pidx' = pidx
    /\ UNCHANGED <<chainID, execVars, cfgVars, agentVars, tipVars, loaderVars, weights, pctx, pslots, pmsgs, pmsg>>

\* Lines 196-207
VerifySignature ==
    /\ ppc = "verify"
    /\ LET err == VerifyMessageSignature(pmsg, weights) IN
        /\ ptrace' = Append(ptrace, Event("verify", pidx))
        /\ IF err # ""
           THEN ppc' = "done" /\ presult' = err /\ pidx' = pidx
           ELSE ppc' = "loop" /\ presult' = presult /\ pidx' = pidx + 1
    /\ UNCHANGED <<chainID, execVars, cfgVars, agentVars, tipVars, loaderVars, weights, pctx, pslots, pmsgs, pmsg>>

\* Lines 207-210: the range loop is over.
LoopEnd ==
    /\ ppc = "loop"
    /\ pidx > Len(pmsgs)
    /\ ppc' = "done"
    /\ UNCHANGED <<chainID, execVars, cfgVars, agentVars, tipVars, loaderVars, weights, pctx, pslots, pmsgs, pidx, pmsg, presult, ptrace>>

InitPred ==
    /\ chainID \in ChainIDs
    /\ logs = <<>>
    /\ call = NoCall
    /\ weights \in WeightVectors
    /\ pctx \in [ProposerVMBlockCtx : BOOLEAN]
    /\ pslots \in PredSlots
    /\ ppc = "entry"
    /\ pmsgs = <<>>
    /\ pidx = 0
    /\ pmsg = <<>>
    /\ presult = ""
    /\ ptrace = <<>>
    /\ CfgIdle
    /\ AgentIdle
    /\ TipIdle
    /\ LoaderIdle

NextPred ==
    \/ VerifyEntry
    \/ LoopParse
    \/ CheckChainID
    \/ VerifySignature
    \/ LoopEnd

SpecPred == InitPred /\ [][NextPred]_vars

(***************************************************************************)
(* A transaction that names the precompile in its access list: the         *)
(* predicate runs on the bytes of the tuple when the block is verified,    *)
(* and if it returns nil the transaction executes and may call             *)
(* getVerifiedWarpMessage, which finds the same bytes as predicate         *)
(* storage slots.                                                          *)
(***************************************************************************)

\* Raw signed messages of a transaction: the destination chain of the
\* signed envelope and the warp message carried as payload are chosen
\* apart, signed by every validator or by all but the last; and signed
\* messages whose payload is not the serialization of a warp message.
TxBlobs ==
    {GarbageBlob}
    \cup { SignedBlob(d, sg, TRUE, Marshal(Version, m)) :
             d \in ChainIDs, sg \in {1..(NumValidators - 1), Validators},
             m \in ReceivedMessages }
    \cup { SignedBlob(d, Validators, TRUE, <<>>) : d \in ChainIDs }

TxSlots == {EmptySlots} \cup { RlpEncode(l) : l \in SeqUpTo(TxBlobs, MaxMsgs) }

\* The transaction passed the predicate and calls getVerifiedWarpMessage.
ExecGetVerifiedWarpMessage ==
    /\ ppc = "done"
    /\ presult = ""
    /\ call.fn = "none"
    /\ \E input \in GetVerifiedWarpMessageInputs, suppliedGas \in GetVerifiedWarpMessageGas,
          readOnly \in BOOLEAN :
        LET slots == [exists |-> TRUE, value |-> pslots]
            r == getVerifiedWarpMessage(AccessibleState(slots), "caller1",
                                        WarpMessengerAddress, input, suppliedGas, readOnly)
        IN /\ call' = Called("getVerifiedWarpMessage", "caller1", input, suppliedGas,
                             readOnly, slots, r)
           /\ logs' = r.logs
           /\ UNCHANGED <<chainID, predVars, cfgVars, agentVars, tipVars, loaderVars>>

\* The transaction passed the predicate and calls the other handlers.
ExecGetBlockchainId ==
    /\ ppc = "done"
    /\ presult = ""
    /\ CallGetBlockchainId

ExecSendWarpMessage ==
    /\ ppc = "done"
    /\ presult = ""
    /\ CallSendWarpMessage

InitTx ==
    /\ chainID \in ChainIDs
    /\ logs = <<>>
    /\ call = NoCall
    /\ weights \in WeightVectors
    /\ pctx \in [ProposerVMBlockCtx : BOOLEAN]
    /\ pslots \in TxSlots
    /\ ppc = "entry"
    /\ pmsgs = <<>>
    /\ pidx = 0
    /\ pmsg = <<>>
    /\ presult = ""
    /\ ptrace = <<>>
    /\ CfgIdle
    /\ AgentIdle
    /\ TipIdle
    /\ LoaderIdle

NextTx ==
    \/ VerifyEntry
    \/ LoopParse
    \/ CheckChainID
    \/ VerifySignature
    \/ LoopEnd
    \/ ExecGetBlockchainId
    \/ ExecGetVerifiedWarpMessage
    \/ ExecSendWarpMessage
    \/ ReturnToCaller

SpecTx == InitTx /\ [][NextTx]_vars

(***************************************************************************)
(* Configs are built and compared.                                         *)
(***************************************************************************)
InitCfg ==
    /\ chainID \in ChainIDs
    /\ logs = <<>>
    /\ call = NoCall
    /\ PredIdle
    /\ CfgIdle
    /\ AgentIdle
    /\ TipIdle
    /\ LoaderIdle

NextCfg ==
    \/ CallNewWarpMessengerConfig
    \/ CallNewDisableWarpMessengerConfig
    \/ BuildWarpMessengerConfig
    \/ BuildOtherPrecompileConfig
    \/ CallEqual

SpecCfg == InitCfg /\ [][NextCfg]_vars

(***************************************************************************)
(* A loader of NumClients clients confirms that they reached the tip.      *)
(***************************************************************************)
InitTip ==
    /\ chainID \in ChainIDs
    /\ logs = <<>>
    /\ call = NoCall
    /\ PredIdle
    /\ CfgIdle
    /\ AgentIdle
    /\ LoaderIdle
    /\ theight \in [Clients -> 0..MaxHeight]
    /\ tctx = FALSE
    /\ tpc = "pass"
    /\ ti = 1
    /\ tmax = 0
    /\ tppc = [c \in Clients |-> "idle"]
    /\ tegerr = NilError
    /\ tret = NilError
    /\ tinit = [c \in Clients |-> -1]
    /\ treported = [c \in Clients |-> -1]
    /\ tfailed = FALSE
    /\ tdone = FALSE
    /\ tcancelBelow = FALSE

NextTip ==
    \/ \E c \in Clients : HeightAdvance(c)
    \/ TipCancelContext
    \/ InitialPass
    \/ StartPollers
    \/ \E c \in Clients : Poll(c)
    \/ \E c \in Clients : PollContextDone(c)
    \/ \E c \in Clients : PollTimer(c)
    \/ WaitReturns

SpecTip == InitTip /\ [][NextTip]_vars

\* ConfirmReachedTip and every polling goroutine are scheduled whenever they
\* can take a step, every LatestHeight call returns, and a poller that waits
\* leaves the select: the second passes (loader.go 113) or the context is
\* found cancelled. Nothing makes the chains grow or the context cancelled.
SpecTipLive ==
    /\ InitTip
    /\ [][NextTip]_vars
    /\ WF_vars(InitialPass)
    /\ WF_vars(StartPollers)
    /\ \A c \in Clients : WF_vars(Poll(c))
    /\ \A c \in Clients : WF_vars(PollTimer(c) \/ PollContextDone(c))
    /\ WF_vars(WaitReturns)

(***************************************************************************)
(* A loader executes: New(clients, txSequences, batchSize).Execute(ctx),   *)
(* with a client for every sequence.                                       *)
(***************************************************************************)
InitLoader ==
    /\ chainID \in ChainIDs
    /\ logs = <<>>
    /\ call = NoCall
    /\ PredIdle
    /\ CfgIdle
    /\ AgentIdle
    /\ TipIdle
    /\ lseqs \in 0..MaxSequences
    /\ lclients \in lseqs..MaxSequences
    /\ lbatch \in 0..MaxBatch
    /\ lctx = FALSE
    /\ lpc = "build"
    /\ lagents = <<>>
    /\ lapc = [i \in 1..lseqs |-> "idle"]
    /\ lares = [i \in 1..lseqs |-> NilError]
    /\ lissued = [c \in 1..lclients |-> {}]
    /\ legerr = NilError
    /\ lret = NilError

NextLoader ==
    \/ LoaderCancelContext
    \/ BuildAgent
    \/ StartAgents
    \/ \E i \in 1..MaxSequences : AgentIssues(i)
    \/ \E i \in 1..MaxSequences : AgentReturns(i)
    \/ LoaderWait

SpecLoader == InitLoader /\ [][NextLoader]_vars

(***************************************************************************)
(* One agent executes: NewIssueNAgent(sequence, worker, n).Execute(ctx).   *)
(***************************************************************************)
InitAgent ==
    /\ chainID \in ChainIDs
    /\ logs = <<>>
    /\ call = NoCall
    /\ PredIdle
    /\ CfgIdle
    /\ TipIdle
    /\ LoaderIdle
    /\ an \in 0..MaxBatch
    /\ asrc \in { [i \in 1..k |-> i] : k \in 0..MaxTxs }
    /\ abuf = <<>>
    /\ aclosed = FALSE
    /\ actx = FALSE
    /\ apc = "start"
    /\ ai = 0
    /\ atxs = <<>>
    /\ amore = FALSE
    /\ aci = 0
    /\ aret = NilError
    /\ arecv = <<>>
    /\ atrace = <<>>

\* The steps of Execute.
ExecuteStep ==
    \/ ExecuteStart
    \/ SelectContextDone
    \/ SelectReceiveTx
    \/ SelectChannelClosed
    \/ ConfirmNext
    \/ BatchEnd

NextAgent ==
    \/ SequenceSend
    \/ SequenceClose
    \/ CancelContext
    \/ ExecuteStart
    \/ SelectContextDone
    \/ SelectReceiveTx
    \/ SelectChannelClosed
    \/ ConfirmNext
    \/ BatchEnd

SpecAgent == InitAgent /\ [][NextAgent]_vars

\* The goroutine of Execute is scheduled whenever it can take a step, and
\* the sequence keeps sending and then closes its channel (agent.go 16-21).
SpecAgentLive ==
    /\ InitAgent
    /\ [][NextAgent]_vars
    /\ WF_vars(ExecuteStep)
    /\ WF_vars(SequenceSend)
    /\ WF_vars(SequenceClose)

(***************************************************************************)
(* Properties of the handlers (specification Spec).                        *)
(***************************************************************************)

\* What the call in flight was given, read from its arguments alone.
CallList == call.slots.value.items
CallIndex == call.input[1].lo
\* The call is a getVerifiedWarpMessage call that passes every check before
\* the per-signer charge: not read-only, base gas supplied, a well-formed
\* index, slots that decode, an index in range, a message that parses.
ReachesSignerCharge ==
    /\ call.fn = "getVerifiedWarpMessage"
    /\ ~call.readOnly
    /\ call.suppliedGas >= 100000
    /\ Len(call.input) >= 1
    /\ call.slots.exists
    /\ call.slots.value.enc = "rlp"
    /\ ~call.input[1].big
    /\ CallIndex < Len(CallList)
    /\ CallList[CallIndex + 1].wellFormed
\* The number of signer bits of the message the call selects.
CallSigners == Cardinality(CallList[CallIndex + 1].signers)
\* The payload of the selected message decodes as a WarpMessage.
CallPayloadDecodes == Unmarshal(CallList[CallIndex + 1].payload).err = ""

\* C1: getBlockchainId with supplied gas >= 5,000 returns, in read-only and
\* in mutating context alike, no error, the local chain id as output and
\* supplied - 5,000 as remaining gas.
GetBlockchainIdSameInReadOnly ==
    (call.fn = "getBlockchainId" /\ call.suppliedGas >= 5000)
        => /\ call.err = ""
           /\ call.ret = <<chainID>>
           /\ call.remainingGas = call.suppliedGas - 5000

\* C2: a getVerifiedWarpMessage call whose other checks pass, on a message
\* with k signer bits, succeeds whenever supplied >= 100,000 + 1,000 * k and
\* then returns supplied - (100,000 + 1,000 * k) as remaining gas.
GetVerifiedChargesThousandPerSigner ==
    (ReachesSignerCharge /\ CallPayloadDecodes
     /\ call.suppliedGas >= 100000 + 1000 * CallSigners)
        => /\ call.err = ""
           /\ call.remainingGas = call.suppliedGas - (100000 + 1000 * CallSigners)

\* C3: whenever a gas deduction of a handler (the base cost, or the
\* per-signer charge of getVerifiedWarpMessage) exceeds the gas remaining
\* at that step, the call fails with the out-of-gas error, returns 0 as
\* remaining gas and emits no log.
OutOfGasAtThisCall ==
    \/ call.fn = "getBlockchainId" /\ call.suppliedGas < 5000
    \/ call.fn = "sendWarpMessage" /\ call.suppliedGas < 100000
    \/ call.fn = "getVerifiedWarpMessage" /\ call.suppliedGas < 100000
    \/ /\ ReachesSignerCharge
       /\ \/ 1000 * CallSigners > call.suppliedGas - 100000
          \/ 100000 * CallSigners > call.suppliedGas - 100000
GasExhaustionConsumesAll ==
    OutOfGasAtThisCall
        => /\ call.err = ErrOutOfGas
           /\ call.remainingGas = 0
           /\ logs = call.logsBefore
\* A call that runs out of gas at the per-signer charge, one unit short.
GasExhaustionWitness ==
    /\ ReachesSignerCharge
    /\ call.suppliedGas = 199999
    /\ CallSigners = 1
    /\ call.err = ErrOutOfGas
    /\ call.remainingGas = 0

\* C4: sendWarpMessage and getVerifiedWarpMessage called read-only with
\* supplied gas >= 100,000 fail with the write-protection error whatever
\* the input and the predicate data, emit no log and return
\* supplied - 100,000 as remaining gas.
ReadOnlyIsWriteProtected ==
    (call.fn \in {"sendWarpMessage", "getVerifiedWarpMessage"}
     /\ call.readOnly /\ call.suppliedGas >= 100000)
        => /\ call.err = ErrWriteProtection
           /\ call.remainingGas = call.suppliedGas - 100000
           /\ logs = call.logsBefore
\* A read-only getVerifiedWarpMessage call with malformed input.
ReadOnlyWitness ==
    /\ call.fn = "getVerifiedWarpMessage"
    /\ call.readOnly
    /\ call.input = <<>>
    /\ call.suppliedGas = 100000
    /\ call.err = ErrWriteProtection
    /\ call.remainingGas = 0

(***************************************************************************)
(* Properties of the predicate (specification SpecPred), stated over its   *)
(* arguments pctx and pslots, the chain id and the validator weights.      *)
(***************************************************************************)

\* The raw messages of the payload, when it is a list.
Payload == pslots.items
IsList == pslots.enc = "rlp"
HasProposerCtx == pctx.ProposerVMBlockCtx
\* The signers of blob b carry at least 67/100 of the total weight.
HasQuorum(b) == 100 * SumWeight(b.signers, weights) >= 67 * SumWeight(Validators, weights)
\* Blob b parses, is meant for this chain and carries a valid quorum signature.
Verifies(b) == b.wellFormed /\ b.dest = chainID /\ b.sigValid /\ HasQuorum(b)
Returned == ppc = "done"

\* C5: the predicate fails for the whole payload when any decoded message
\* has a destination chain id other than the local one, at any position and
\* whatever the other messages are.
WrongDestinationFailsPayload ==
    (Returned /\ IsList
     /\ \E i \in 1..Len(Payload) : Payload[i].wellFormed /\ Payload[i].dest # chainID)
        => presult # ""
\* The wrong destination stands second, behind a message that verifies.
WrongDestinationWitness ==
    /\ Returned /\ HasProposerCtx /\ IsList
    /\ Len(Payload) = 2
    /\ Verifies(Payload[1])
    /\ Payload[2].wellFormed /\ Payload[2].dest # chainID
    /\ Payload[2].sigValid /\ HasQuorum(Payload[2])
    /\ presult = ErrWrongChainID

\* C6: verifyPredicate returns nil exactly when the context carries a
\* proposer block context and the payload is empty or is a list whose
\* every message parses, is meant for this chain and passes signature
\* verification.
ShouldSucceed ==
    /\ HasProposerCtx
    /\ \/ SlotsLen0(pslots)
       \/ IsList /\ \A i \in 1..Len(Payload) : Verifies(Payload[i])
SuccessExactlyWhenAllVerify ==
    Returned => (presult = "" <=> ShouldSucceed)
\* Two messages, both verifying.
SuccessWitness ==
    /\ Returned /\ presult = ""
    /\ IsList /\ Len(Payload) = 2
    /\ Payload[1] # Payload[2]

\* C7: messages are parsed and verified in payload order, and after the
\* first message that fails nothing later is parsed or verified; the error
\* returned is that message's.
Fails(i) == ~Verifies(Payload[i])
FirstFailure == CHOOSE i \in 1..Len(Payload) : Fails(i) /\ \A k \in 1..(i - 1) : ~Fails(k)
ErrorsOf(b) ==
    IF ~b.wellFormed THEN {ErrParseMessage}
    ELSE IF b.dest # chainID THEN {ErrWrongChainID}
    ELSE {ErrInsufficientWeight, ErrSignatureVerify}
InOrderShortCircuit ==
    /\ \A j \in 1..Len(ptrace) :
        LET e == ptrace[j] IN
        /\ e.op = "decode" => j = 1
        /\ e.op = "parse" =>
            /\ j > 1
            /\ ptrace[j - 1] = (IF e.i = 1 THEN Event("decode", 0) ELSE Event("verify", e.i - 1))
            /\ \A k \in 1..(e.i - 1) : Verifies(Payload[k])
        /\ e.op = "verify" =>
            /\ j > 1
            /\ ptrace[j - 1] = Event("parse", e.i)
            /\ Payload[e.i].wellFormed /\ Payload[e.i].dest = chainID
    /\ (Returned /\ HasProposerCtx /\ IsList /\ \E i \in 1..Len(Payload) : Fails(i))
        => /\ presult \in ErrorsOf(Payload[FirstFailure])
           /\ \A j \in 1..Len(ptrace) : ptrace[j].i <= FirstFailure
\* The first message fails at signature verification; the second, which
\* verifies, is never parsed.
ShortCircuitWitness ==
    /\ Returned /\ HasProposerCtx /\ IsList
    /\ Len(Payload) = 2
    /\ Payload[1].wellFormed /\ Payload[1].dest = chainID /\ ~HasQuorum(Payload[1])
    /\ Verifies(Payload[2])
    /\ ptrace = <<Event("decode", 0), Event("parse", 1), Event("verify", 1)>>
    /\ presult # ""

\* C8: for messages with the right destination chain (and a valid aggregate
\* signature of their signers), the predicate succeeds when every
\* message's signer weight W and the total weight T satisfy
\* 100 * W >= 67 * T and fails when one has 100 * W < 67 * T.
QuorumInclusive ==
    (Returned /\ HasProposerCtx /\ IsList /\ Len(Payload) >= 1
     /\ \A i \in 1..Len(Payload) :
            Payload[i].wellFormed /\ Payload[i].dest = chainID /\ Payload[i].sigValid)
        => (presult = "" <=>
                \A i \in 1..Len(Payload) :
                    100 * SumWeight(Payload[i].signers, weights)
                        >= 67 * SumWeight(Validators, weights))
\* One message whose signers weigh exactly 67/100 of the total.
QuorumBoundaryWitness ==
    /\ Returned /\ HasProposerCtx /\ IsList
    /\ Len(Payload) = 1
    /\ Payload[1].wellFormed /\ Payload[1].dest = chainID /\ Payload[1].sigValid
    /\ 100 * SumWeight(Payload[1].signers, weights) = 67 * SumWeight(Validators, weights)
    /\ presult = ""

\* C9: with a proposer block context, an empty payload is accepted without
\* decoding, parsing or verifying anything.
EmptyPayloadSucceeds ==
    (Returned /\ HasProposerCtx /\ SlotsLen0(pslots))
        => presult = "" /\ ptrace = <<>>
EmptyPayloadWitness ==
    /\ Returned /\ HasProposerCtx
    /\ pslots = EmptySlots
    /\ presult = "" /\ ptrace = <<>>

\* C10: without a proposer block context the predicate fails for every
\* payload, before any other step.
MissingContextFails ==
    (Returned /\ ~HasProposerCtx)
        => presult = ErrMissingProposerCtx /\ ptrace = <<>>
\* No context and a payload whose two messages verify.
MissingContextWitness ==
    /\ Returned /\ ~HasProposerCtx
    /\ IsList /\ Len(Payload) = 2
    /\ \A i \in 1..2 : Verifies(Payload[i])
    /\ presult = ErrMissingProposerCtx

(***************************************************************************)
(* Properties of sendWarpMessage and of the log list (specification Spec). *)
(***************************************************************************)

\* The call in flight is a sendWarpMessage call that succeeded.
SendSucceeded == call.fn = "sendWarpMessage" /\ call.err = ""
\* The log record the call in flight left last.
LastLog == logs[Len(logs)]

\* C11: decoding the data of the log emitted by a successful
\* sendWarpMessage yields a WarpMessage whose destination chain id,
\* destination address and payload are the inputs, whose origin chain id is
\* the local chain id and whose origin sender address is the caller's
\* identity.
SendRoundTrip ==
    SendSucceeded =>
        LET um == Unmarshal(LastLog.data) IN
        /\ Len(logs) = Len(call.logsBefore) + 1
        /\ um.err = ""
        /\ um.msg.DestinationChainId = call.input[1]
        /\ um.msg.DestinationAddress = call.input[2]
        /\ um.msg.Payload = call.input[3]
        /\ um.msg.OriginChainId = chainID
        /\ um.msg.OriginSenderAddress = AddressHash(call.caller)
\* A message with a non-empty payload sent by the second caller to another
\* chain than the local one.
SendRoundTripWitness ==
    /\ SendSucceeded
    /\ call.caller = "caller2"
    /\ call.input[1] # chainID
    /\ call.input[3] = <<5>>
    /\ Unmarshal(LastLog.data).msg.Payload = <<5>>

\* The topics t are the values of u, in some order.
SameTopics(t, u) ==
    /\ Len(t) = Len(u)
    /\ \E p \in Permutations(1..Len(u)) : \A i \in 1..Len(u) : t[i] = u[p[i]]
\* The call in flight is a sendWarpMessage call in a mutating context with
\* the base gas and a well-formed input.
SendAdmitted ==
    /\ call.fn = "sendWarpMessage"
    /\ ~call.readOnly
    /\ call.suppliedGas >= 100000
    /\ Len(call.input) >= 3

\* C12: a sendWarpMessage call that is not read-only, has supplied gas >=
\* 100,000 and a well-formed input succeeds and appends exactly one log
\* record: its address is the precompile's, its topics are the event
\* signature hash, the destination chain id of the input and the local
\* chain id, its data is the serialization, under the version tag, of the
\* message built from the input, the local chain and the caller. The call
\* returns empty output and supplied - 100,000 as remaining gas.
SendAppendsOneRecord ==
    SendAdmitted =>
        /\ call.err = ""
        /\ call.ret = <<>>
        /\ call.remainingGas = call.suppliedGas - 100000
        /\ Len(logs) = Len(call.logsBefore) + 1
        /\ SubSeq(logs, 1, Len(call.logsBefore)) = call.logsBefore
        /\ LastLog.address = WarpMessengerAddress
        /\ SameTopics(LastLog.topics, <<SubmitMessageEventID, call.input[1], chainID>>)
        /\ LastLog.data = Marshal(Version, WarpMessage(chainID, AddressHash(call.caller),
                                                       call.input[1], call.input[2],
                                                       call.input[3]))
\* A message to another chain sent with gas to spare: the record's topics
\* are three different values.
SendAppendsOneRecordWitness ==
    /\ SendAdmitted
    /\ call.suppliedGas = 100001
    /\ call.remainingGas = 1
    /\ call.input[1] # chainID
    /\ Len(logs) = 1
    /\ LastLog.topics[2] = chainID
    /\ LastLog.topics[3] = call.input[1]

\* C13: over any sequence of calls of the three handlers, a step changes
\* the log list only by a successful sendWarpMessage, which appends one
\* record; a failing call and a getBlockchainId or getVerifiedWarpMessage
\* call leave the log list as it was; no step changes the chain id, the
\* validator and predicate state or the configs.
NoPartialEffects ==
    [][ /\ chainID' = chainID
        /\ predVars' = predVars
        /\ cfgVars' = cfgVars
        /\ agentVars' = agentVars
        /\ tipVars' = tipVars
        /\ loaderVars' = loaderVars
        /\ (call'.fn # "none" /\ (call'.fn # "sendWarpMessage" \/ call'.err # ""))
              => logs' = logs
        /\ logs' # logs
              => /\ call'.fn = "sendWarpMessage" /\ call'.err = ""
                 /\ Len(logs') = Len(logs) + 1
                 /\ SubSeq(logs', 1, Len(logs)) = logs ]_vars
\* With one record in the log list, a getVerifiedWarpMessage call fails at
\* its index: the list is the one the call found.
NoPartialEffectsWitness ==
    /\ Len(logs) = 1
    /\ logs = call.logsBefore
    /\ call.fn = "getVerifiedWarpMessage"
    /\ call.err = ErrInvalidIndex

(***************************************************************************)
(* Properties of getVerifiedWarpMessage (specification Spec).              *)
(***************************************************************************)

\* The call in flight is a getVerifiedWarpMessage call in a mutating
\* context with the base gas and a well-formed index argument.
GetVerifiedAdmitted ==
    /\ call.fn = "getVerifiedWarpMessage"
    /\ ~call.readOnly
    /\ call.suppliedGas >= 100000
    /\ Len(call.input) >= 1
\* The predicate data the call found is a list of signed messages.
CallSlotsAreList == call.slots.exists /\ call.slots.value.enc = "rlp"
\* The number of signed messages of the transaction for the precompile.
CallMessageCount == IF CallSlotsAreList THEN Len(CallList) ELSE 0
\* The index given does not fit a signed 64-bit integer or is at least n.
CallIndexBeyond(n) == call.input[1].big \/ CallIndex >= n

\* C14 as stated: an index that is at least the number of messages of the
\* transaction, or that does not fit a signed 64-bit integer, fails with
\* the invalid-message-index error and returns no message, whatever makes
\* that number zero.
BadIndexIsInvalidIndex ==
    (GetVerifiedAdmitted /\ CallIndexBeyond(CallMessageCount))
        => call.err = ErrInvalidIndex /\ call.ret = <<>>

\* C14: when the predicate data of the transaction decodes as a list of n
\* signed messages, n = 0 included, an index that is at least n or does not
\* fit a signed 64-bit integer fails with the invalid-message-index error,
\* returns no message and charges the base cost; when no predicate data is
\* recorded, or it does not decode as a list (empty bytes included), the
\* call fails before the index is looked at, with the missing-slots or the
\* decoding error.
BadIndexFailsAfterSlotChecks ==
    /\ (GetVerifiedAdmitted /\ CallSlotsAreList /\ CallIndexBeyond(Len(CallList)))
          => /\ call.err = ErrInvalidIndex
             /\ call.ret = <<>>
             /\ call.remainingGas = call.suppliedGas - 100000
    /\ (GetVerifiedAdmitted /\ ~CallSlotsAreList)
          => /\ call.err \in {ErrMissingSlots, ErrRlpDecode}
             /\ call.ret = <<>>
             /\ call.remainingGas = call.suppliedGas - 100000
\* An index that does not fit, on a list of two messages that parse.
BadIndexWitness ==
    /\ GetVerifiedAdmitted /\ CallSlotsAreList
    /\ Len(CallList) = 2
    /\ \A i \in 1..2 : CallList[i].wellFormed
    /\ call.input[1].big
    /\ call.err = ErrInvalidIndex

\* C15: when no predicate storage slots are recorded for the precompile
\* (no entry, or a nil one), a getVerifiedWarpMessage call that is not
\* read-only, has the base gas and a well-formed index fails with the
\* missing-storage-slots error, returns no message and charges the base
\* cost alone.
MissingSlotsIsExplicitError ==
    (GetVerifiedAdmitted /\ (~call.slots.exists \/ SlotsIsNil(call.slots.value)))
        => /\ call.err = ErrMissingSlots
           /\ call.ret = <<>>
           /\ call.remainingGas = call.suppliedGas - 100000
\* No entry for the precompile, index 0, twice the base gas supplied.
MissingSlotsWitness ==
    /\ GetVerifiedAdmitted
    /\ ~call.slots.exists
    /\ call.input = <<Word(FALSE, 0)>>
    /\ call.suppliedGas = 200000
    /\ call.err = ErrMissingSlots
    /\ call.remainingGas = 100000

\* C16: a successful getVerifiedWarpMessage(i) had a list of more than i
\* signed messages to read and returns (message, TRUE), message being the
\* WarpMessage decoded from the payload of the signed message at position
\* i of that list, counted from 0.
ReturnsMessageAtIndex ==
    (call.fn = "getVerifiedWarpMessage" /\ call.err = "")
        => /\ CallSlotsAreList
           /\ ~call.input[1].big
           /\ CallIndex < Len(CallList)
           /\ Unmarshal(CallList[CallIndex + 1].payload).err = ""
           /\ call.ret = <<Unmarshal(CallList[CallIndex + 1].payload).msg, TRUE>>
\* Index 1 of a list of two signed messages that carry different warp
\* messages.
ReturnsMessageAtIndexWitness ==
    /\ call.fn = "getVerifiedWarpMessage" /\ call.err = ""
    /\ Len(CallList) = 2
    /\ CallIndex = 1
    /\ CallPayloadDecodes
    /\ Unmarshal(CallList[1].payload).err = ""
    /\ Unmarshal(CallList[1].payload).msg # Unmarshal(CallList[2].payload).msg
    /\ call.ret[1] = Unmarshal(CallList[2].payload).msg
    /\ call.ret[2] = TRUE

(***************************************************************************)
(* Properties of a transaction from predicate to execution (specification  *)
(* SpecTx).                                                                *)
(***************************************************************************)

\* C17: a WarpMessage returned by a successful getVerifiedWarpMessage, in a
\* transaction whose payload passed the predicate on this chain, has the
\* local chain id as its destination chain id.
ReturnedDestinationIsLocal ==
    (ppc = "done" /\ presult = ""
     /\ call.fn = "getVerifiedWarpMessage" /\ call.err = "")
        => call.ret[1].DestinationChainId = chainID

(***************************************************************************)
(* Properties of the configs (specification SpecCfg).                      *)
(***************************************************************************)

\* The receiver and the argument of the last Equal call.
EqualReceiver == configs[equalCall.c]
EqualArgument == configs[equalCall.s]
EqualCalled == equalCall.c # 0

\* C18: c.Equal(s) is true exactly when s is a Warp Messenger config whose
\* activation timestamp has the value of c's and whose disabled flag is
\* c's, whichever way the two were built and wherever they are stored; a
\* config that differs in one of the two fields, or is of another
\* precompile's type, is not Equal.
ConfigEqualIsStructural ==
    EqualCalled =>
        (equalCall.result <=>
            /\ EqualArgument.type = "WarpMessengerConfig"
            /\ EqualArgument.UpgradeableConfig.BlockTimestamp.val
                 = EqualReceiver.UpgradeableConfig.BlockTimestamp.val
            /\ EqualArgument.UpgradeableConfig.Disable
                 = EqualReceiver.UpgradeableConfig.Disable)
\* A config built by NewDisableWarpMessengerConfig and one written as a
\* literal, at different addresses, over different big.Int objects of the
\* same value: they are Equal.
ConfigEqualWitness ==
    /\ EqualCalled
    /\ equalCall.c # equalCall.s
    /\ EqualReceiver.builtBy = "NewDisableWarpMessengerConfig"
    /\ EqualArgument.builtBy = "literal"
    /\ EqualReceiver.UpgradeableConfig.BlockTimestamp.ptr = "p1"
    /\ EqualArgument.UpgradeableConfig.BlockTimestamp.ptr = "p2"
    /\ equalCall.result

\* The verdict on a list of raw messages from position i on, as a function
\* of the list, the chain id and the validator weights.
RECURSIVE VerdictFrom(_, _)
VerdictFrom(list, i) ==
    IF i > Len(list) THEN ""
    ELSE IF ~list[i].wellFormed THEN ErrParseMessage
    ELSE IF list[i].dest # chainID THEN ErrWrongChainID
    ELSE IF ~HasQuorum(list[i]) THEN ErrInsufficientWeight
    ELSE IF ~list[i].sigValid THEN ErrSignatureVerify
    ELSE VerdictFrom(list, i + 1)
\* The verdict as a function of the predicate's inputs.
Verdict ==
    IF ~HasProposerCtx THEN ErrMissingProposerCtx
    ELSE IF SlotsLen0(pslots) THEN ""
    ELSE IF ~IsList THEN ErrRlpDecode
    ELSE VerdictFrom(Payload, 1)
\* What the handler of the call in flight returns for the call's inputs
\* (caller, input, supplied gas, readOnly, chain id, predicate storage
\* slots) in a state with no log.
ResultOfInputs ==
    LET fresh == [ChainID |-> chainID, slots |-> call.slots, logs |-> <<>>] IN
    CASE call.fn = "getBlockchainId" ->
            getBlockchainId(fresh, call.caller, WarpMessengerAddress, call.input,
                            call.suppliedGas, call.readOnly)
      [] call.fn = "getVerifiedWarpMessage" ->
            getVerifiedWarpMessage(fresh, call.caller, WarpMessengerAddress, call.input,
                                   call.suppliedGas, call.readOnly)
      [] call.fn = "sendWarpMessage" ->
            sendWarpMessage(fresh, call.caller, WarpMessengerAddress, call.input,
                            call.suppliedGas, call.readOnly)

RemainingGasWithinSupplied ==
    call.fn # "none" =>
        /\ 0 <= call.remainingGas
        /\ call.remainingGas <= call.suppliedGas
\* A successful getVerifiedWarpMessage on a message with two signers or
\* more: the base cost and the charge per signer were both deducted.
RemainingGasWitness ==
    /\ ReachesSignerCharge
    /\ call.err = ""
    /\ CallSigners >= 2
    /\ call.remainingGas = call.suppliedGas - 100000 * (1 + CallSigners)

\* The base cost of the handler of the call in flight.
BaseCost ==
    IF call.fn = "getBlockchainId" THEN 5000 ELSE 100000
\* The call in flight failed after the charge per signer was deducted: the
\* payload of the selected message does not decode.
FailedAfterSignerCharge ==
    /\ ReachesSignerCharge
    /\ call.suppliedGas >= 100000 + 100000 * CallSigners
    /\ ~CallPayloadDecodes

\* C23: when a handler fails for another reason than gas exhaustion, the
\* remaining gas it returns is the supplied gas less the costs deducted
\* before the failure: the base cost, and for a getVerifiedWarpMessage that
\* fails at decoding the payload also the charge per signer (the 100,000
\* per signer the code deducts).
FailureKeepsUndeductedGas ==
    (call.fn # "none" /\ call.err # "" /\ call.err # ErrOutOfGas)
        => call.remainingGas =
              call.suppliedGas - BaseCost
                - (IF FailedAfterSignerCharge THEN 100000 * CallSigners ELSE 0)
\* A payload that does not decode, in a message with one signer, with
\* 300,000 supplied: 100,000 are left.
FailureKeepsUndeductedGasWitness ==
    /\ FailedAfterSignerCharge
    /\ CallSigners = 1
    /\ call.suppliedGas = 300000
    /\ call.err = ErrCodecUnmarshal
    /\ call.remainingGas = 100000

\* C24: the log record of a successful sendWarpMessage is an instance of
\* the event SendWarpMessage of the contract's ABI: topic 0 is the hash of
\* the event's signature and the indexed topics are, in this order, the
\* destination chain id, the destination address and the sender.
LogConformsToABIEvent ==
    SendSucceeded =>
        LastLog.topics = <<SendWarpMessageEventID, call.input[1], call.input[2],
                           AddressHash(call.caller)>>

\* C25: when the predicate accepted a payload of m messages, a
\* getVerifiedWarpMessage(i) call with i < m that is not read-only and has
\* the gas for the base cost and for the charge per signer of message i
\* succeeds.
AdmittedIsRetrievable ==
    (ppc = "done" /\ presult = "" /\ IsList
     /\ GetVerifiedAdmitted
     /\ ~call.input[1].big
     /\ CallIndex < Len(Payload)
     /\ call.suppliedGas >= 100000 + 100000 * Cardinality(Payload[CallIndex + 1].signers))
        => call.err = ""


(***************************************************************************)
(* issueNAgent.Execute: what the worker was called with.                   *)
(***************************************************************************)
CallsOf(op) == SelectSeq(atrace, LAMBDA c : c.op = op)
TxsPassedTo(op) == [j \in 1..Len(CallsOf(op)) |-> CallsOf(op)[j].tx]
ConfirmedCalls == SelectSeq(atrace, LAMBDA c : c.op = "ConfirmTx" /\ c.err = "")
ConfirmedTxs == [j \in 1..Len(ConfirmedCalls) |-> ConfirmedCalls[j].tx]
IssuedTxs == TxsPassedTo("IssueTx")
Outstanding == Len(IssuedTxs) - Len(ConfirmedTxs)
WorkerFailed == \E j \in 1..Len(atrace) : atrace[j].err # ""
ExecuteReturned == apc = "returned"

\* C21: Execute works in batches of at most n transactions: the
\* transactions passed to IssueTx and not yet confirmed are never more than
\* n, a batch holds at most n transactions, and whenever Execute is about to
\* issue a transaction the only unconfirmed ones are those of the batch it is
\* filling, fewer than n: every earlier batch is confirmed in full.
BatchesOfAtMostN ==
    an > 0 =>
        /\ Outstanding <= an
        /\ Len(atxs) <= an
        /\ apc = "select" =>
            /\ Len(atxs) < an
            /\ IssuedTxs = ConfirmedTxs \o atxs

\* A second full batch is issued while the first is confirmed in full.
BatchesOfAtMostNWitness ==
    /\ an = 2
    /\ Len(ConfirmedTxs) = 2
    /\ Len(IssuedTxs) = 4
    /\ Outstanding = an

ReturnedNil == ExecuteReturned /\ aret = NilError
CloseCall == WorkerCall("Close", 0, "")

\* C26: when Execute has returned nil, the sequence channel was closed,
\* every transaction received from it was passed to IssueTx exactly once and
\* to ConfirmTx exactly once, both in the order of reception, and every
\* ConfirmTx call comes after the IssueTx call of the same transaction.
NilMeansAllIssuedAndConfirmed ==
    ReturnedNil =>
        /\ aclosed
        /\ IssuedTxs = arecv
        /\ TxsPassedTo("ConfirmTx") = arecv
        /\ \A r \in 1..Len(arecv) :
            /\ Cardinality({ j \in 1..Len(atrace) :
                    atrace[j].op = "IssueTx" /\ atrace[j].tx = arecv[r] }) = 1
            /\ Cardinality({ j \in 1..Len(atrace) :
                    atrace[j].op = "ConfirmTx" /\ atrace[j].tx = arecv[r] }) = 1
        /\ \A j \in 1..Len(atrace) :
            atrace[j].op = "ConfirmTx" =>
                \E k \in 1..(j - 1) :
                    atrace[k].op = "IssueTx" /\ atrace[k].tx = atrace[j].tx

\* Execute returned nil after one full batch and one partial batch.
NilMeansAllIssuedAndConfirmedWitness ==
    /\ ReturnedNil
    /\ an = 2
    /\ Len(arecv) = 3

\* C27: with n = 0 Execute receives nothing, calls neither IssueTx nor
\* ConfirmTx nor Close, and what it returns is the batch-size error; with
\* n > 0 Close is not called before the return, and once Execute has
\* returned Close was called exactly once, as the last call of the worker.
CloseOnceAtReturn ==
    /\ an = 0 =>
        /\ arecv = <<>>
        /\ atrace = <<>>
        /\ ExecuteReturned => aret = ErrBatchSize
    /\ an > 0 =>
        IF ExecuteReturned
        THEN /\ Len(CallsOf("Close")) = 1
             /\ atrace[Len(atrace)] = CloseCall
        ELSE CallsOf("Close") = <<>>

\* Execute returned because the second confirmation of a batch failed.
CloseOnceAtReturnWitness ==
    /\ ExecuteReturned
    /\ aret = ErrAwait(1, ErrWorker)
    /\ Len(CallsOf("Close")) = 1

\* C28: a call of IssueTx or ConfirmTx that returned an error is the last
\* such call: Execute has returned, the only call after it is Close, the
\* returned error wraps the worker's error under the message of the failed
\* operation with the index of the transaction in its batch, and no
\* transaction is received that is not passed to IssueTx.
WorkerErrorEndsExecute ==
    /\ Len(arecv) = Len(IssuedTxs)
    /\ \A j \in 1..Len(atrace) :
        atrace[j].err # "" =>
            /\ ExecuteReturned
            /\ j = Len(atrace) - 1
            /\ atrace[j + 1] = CloseCall
            /\ aret = IF atrace[j].op = "IssueTx"
                      THEN ErrIssue(Len(atxs), atrace[j].err)
                      ELSE ErrAwait(aci - 1, atrace[j].err)

\* The second IssueTx of a batch failed: the first transaction stays
\* unconfirmed.
WorkerErrorEndsExecuteWitness ==
    /\ ExecuteReturned
    /\ aret = ErrIssue(1, ErrWorker)
    /\ Len(atxs) = 1
    /\ ConfirmedTxs = <<>>

\* Execute waits at the select, the context is cancelled, the channel is
\* open and holds no transaction.
CancelledWhileWaiting ==
    /\ apc = "select"
    /\ actx
    /\ abuf = <<>>
    /\ ~aclosed

\* C29: when Execute waits at the select with the context cancelled and the
\* channel open and empty, its next step is the return of the context's
\* error: only Close is called, no ConfirmTx for the batch and no IssueTx,
\* and nothing is received.
CancelledWaitReturnsContextError ==
    [][(CancelledWhileWaiting /\ (apc' # apc \/ atrace' # atrace \/ arecv' # arecv))
        => /\ apc' = "returned"
           /\ aret' = ErrContext
           /\ atrace' = Append(atrace, CloseCall)
           /\ arecv' = arecv]_vars

\* Execute returned the context's error with a transaction of the batch
\* issued and unconfirmed, the channel still open and empty.
CancelledWaitWitness ==
    /\ ExecuteReturned
    /\ aret = ErrContext
    /\ atxs # <<>>
    /\ Outstanding = Len(atxs)
    /\ abuf = <<>>
    /\ ~aclosed

\* C30: with n > 0, Execute eventually returns nil unless the context is
\* cancelled or a worker call returns an error; this includes the sequences
\* whose length is a multiple of n and the empty sequence.
ExecuteEventuallyReturnsNil ==
    <>(an = 0 \/ actx \/ WorkerFailed \/ ReturnedNil)

\* Execute returned nil after two full batches and an empty final batch.
ExecuteEventuallyReturnsNilWitness ==
    /\ ReturnedNil
    /\ ~actx
    /\ an = 2
    /\ Len(arecv) = 4
    /\ atxs = <<>>

(***************************************************************************)
(* Loader.ConfirmReachedTip.                                               *)
(***************************************************************************)
\* The maximum of the heights reported in the initial pass.
InitialMax == CHOOSE m \in 0..(MaxHeight + 1) :
    /\ \A c \in Clients : tinit[c] <= m
    /\ (m = 0 \/ \E c \in Clients : tinit[c] = m)
TipReturned == tpc = "returned"

\* C22 as stated: when the context was cancelled while the chain of a client
\* whose poller had not returned was below maxHeight, ConfirmReachedTip
\* returns an error.
CancelledBelowMaxIsError ==
    (TipReturned /\ tcancelBelow) => tret # NilError

\* C22: ConfirmReachedTip returns nil only if every client reported to its
\* poller a height of at least the maximum M of the initial pass, and it
\* returns an error if a LatestHeight call failed or if a poller, after a
\* report below M, took the case of the cancelled context.
NilOnlyIfAllReachedMax ==
    TipReturned =>
        /\ tret = NilError => \A c \in Clients : treported[c] >= InitialMax
        /\ (tfailed \/ tdone) => tret # NilError

\* ConfirmReachedTip returned nil and a client that was below M in the
\* initial pass reported M or more to its poller.
NilOnlyIfAllReachedMaxWitness ==
    /\ TipReturned
    /\ tret = NilError
    /\ \E c \in Clients : tinit[c] < InitialMax /\ treported[c] >= InitialMax

\* The initial pass is over and every client's chain is at maxHeight or above.
AllReachedMax ==
    /\ ti > NumClients
    /\ \A c \in Clients : theight[c] >= tmax

\* C32 as stated, for the cancelled context: once the context is cancelled
\* with the chain of a client whose poller has not returned below maxHeight,
\* ConfirmReachedTip eventually returns an error.
CancelledBelowMaxLeadsToError ==
    tcancelBelow ~> (TipReturned /\ tret # NilError)

\* C32: ConfirmReachedTip terminates. If every client's chain eventually is
\* and stays at the maximum M of the initial pass or above, then a
\* LatestHeight call fails, or the context is cancelled, or
\* ConfirmReachedTip returns nil. Once the context is cancelled every poller
\* returns and ConfirmReachedTip returns: an error when a LatestHeight call
\* failed or a poller took the case of the cancelled context, nil otherwise.
ConfirmReachedTipTerminates ==
    /\ (<>[]AllReachedMax) => <>(tfailed \/ tctx \/ (TipReturned /\ tret = NilError))
    /\ tctx ~> (TipReturned /\ (tret = NilError <=> ~(tfailed \/ tdone)))

\* ConfirmReachedTip returned an error because a poller whose client had
\* reported a height below M found the context cancelled.
ConfirmReachedTipTerminatesWitness ==
    /\ TipReturned
    /\ tctx
    /\ tdone
    /\ ~tfailed
    /\ tret # NilError
    /\ \E c \in Clients : treported[c] >= 0 /\ treported[c] < tmax

(***************************************************************************)
(* Loader.Execute.                                                         *)
(***************************************************************************)
LoaderReturned == lpc = "returned"
AgentsRunning == { i \in 1..lseqs : lpc = "wait" /\ lapc[i] = "running" }

\* C31: Loader.Execute builds one agent per sequence, agent i on
\* txSequences[i] and clients[i], so that a client is only given
\* transactions of the sequence of its own index; once Execute has returned
\* every agent has returned; it returns nil exactly when every agent
\* returned nil, otherwise the error one of the agents returned; and the
\* context is not cancelled for an agent's failure: an agent returns the
\* context's error only when the caller's context was cancelled.
LoaderRunsEveryAgent ==
    /\ lpc \in {"wait", "returned"} =>
        /\ Len(lagents) = lseqs
        /\ \A i \in 1..lseqs : lagents[i].sequence = i /\ lagents[i].worker = i
    /\ \A c \in 1..lclients : lissued[c] \subseteq {c}
    /\ LoaderReturned =>
        /\ \A i \in 1..lseqs : lapc[i] = "returned"
        /\ lret = NilError <=> \A i \in 1..lseqs : lares[i] = NilError
        /\ lret # NilError => \E i \in 1..lseqs : lares[i] = lret
    /\ \A i \in 1..lseqs : lares[i] = ErrContext => lctx

\* Two agents ran at the same time, the first failed, the second went on
\* to give its transactions to its client and returned nil, and Execute
\* returned the first agent's error.
LoaderRunsEveryAgentWitness ==
    /\ LoaderReturned
    /\ lseqs = 2
    /\ ~lctx
    /\ lares[1] = ErrIssue(0, ErrWorker)
    /\ lares[2] = NilError
    /\ lissued[2] = {2}
    /\ lissued[1] = {}
    /\ lret = lares[1]

====
